---- MODULE Spec2Model ----
(***************************************************************************)
(* Member aggregation of analytiscout: load_data (two passes over the      *)
(* snapshot files of a folder) and normalize_fonction, of                  *)
(* src/data_service.py; the camp quotas (verifier_quotas_camp_sgdf) and    *)
(* the row alerts (highlight_row) of src/page_statistiques.py.             *)
(*                                                                         *)
(* JSON values are tagged records, strings are sequences of one-character  *)
(* strings, so that lower(), upper(), capitalize(), startswith() and the   *)
(* truthiness tests of the code are computed and not assumed.              *)
(***************************************************************************)
EXTENDS Integers, Sequences, FiniteSets, TLC

VARIABLES
    dossier,            \* the *.json files of the folder, in directory order
    ordre,              \* the order in which glob.glob enumerates them in this run
    pc,                 \* position of load_data: "pass1", "pass2", "done", "raised"
    fi,                 \* pass 1: index in ordre of the file being read
    ri,                 \* pass 1: index of the next adherent of the open file (0: not open)
    adherents_uniques,  \* insertion-ordered dict: sequence of [key, adherent]
    fichiers_traites,
    fichiers_erreur,    \* sequence of <<file name, reason>>
    ui,                 \* pass 2: index in adherents_uniques of the next entry
    result,             \* (branche, codeStructure) -> aggregate node
    adherents_traites,
    adherents_ignores,
    precedent,          \* outcome of the previous call of load_data (Aucun when none)
    fonction_arg,       \* argument of a direct call of normalize_fonction
    fonction_ret,       \* value it returned (NonAppele before the call)
    row,                \* a row of the pivot table of a branch: column -> cell
    quota_arg,          \* arguments of a call of verifier_quotas_camp_sgdf
    quota_ret,          \* what it returned (NonAppele before the call)
    details_alertes_camp, \* unit name -> shortfall map, filled by highlight_row
    highlight_ret,      \* what highlight_row returned (NonAppele before the call)
    quota_prec,         \* arguments and return of the call before a second call (Aucun when none)
    branche_arg,        \* arguments of render_branche_content: the two tables and the checkbox
    df_final,           \* the table displayed for the branch (NonAppele before it is built)
    styled,             \* what highlight_row returned for each row styled so far
    all_alerts,         \* the alerts collected over the rows styled so far
    session_state,      \* st.session_state: key -> value
    page,               \* the page the last run of main rendered
    apis,               \* the session of each AnalytiscoutAPI object created so far:
                        \* "authentifiee", "non_authentifiee" (login failed), "fermee"
    message             \* what the last login or logout handler reported

vars == <<dossier, ordre, pc, fi, ri, adherents_uniques, fichiers_traites,
          fichiers_erreur, ui, result, adherents_traites, adherents_ignores,
          precedent, fonction_arg, fonction_ret,
          row, quota_arg, quota_ret, details_alertes_camp, highlight_ret,
          quota_prec, branche_arg, df_final, styled, all_alerts,
          session_state, page, apis, message>>

-----------------------------------------------------------------------------
(* Python strings *)

Minuscules == <<"a","b","c","d","e","f","g","h","i","j","k","l","m",
                "n","o","p","q","r","s","t","u","v","w","x","y","z">>
Majuscules == <<"A","B","C","D","E","F","G","H","I","J","K","L","M",
                "N","O","P","Q","R","S","T","U","V","W","X","Y","Z">>

\* str.lower() and str.upper() on one character: characters without case are kept.
lower_char(c) ==
    IF \E i \in DOMAIN Majuscules : Majuscules[i] = c
    THEN Minuscules[CHOOSE i \in DOMAIN Majuscules : Majuscules[i] = c]
    ELSE c

upper_char(c) ==
    IF \E i \in DOMAIN Minuscules : Minuscules[i] = c
    THEN Majuscules[CHOOSE i \in DOMAIN Minuscules : Minuscules[i] = c]
    ELSE c

str_lower(s) == [i \in 1..Len(s) |-> lower_char(s[i])]
str_upper(s) == [i \in 1..Len(s) |-> upper_char(s[i])]

\* str.capitalize(): first character upper-cased, the rest lower-cased.
str_capitalize(s) ==
    [i \in 1..Len(s) |-> IF i = 1 THEN upper_char(s[i]) ELSE lower_char(s[i])]

startswith(s, p) == Len(s) >= Len(p) /\ SubSeq(s, 1, Len(p)) = p

\* p in s
str_contains(s, p) ==
    \E i \in 0..(Len(s) - Len(p)) : SubSeq(s, i + 1, i + Len(p)) = p

-----------------------------------------------------------------------------
(* JSON values as Python sees them *)

None == [t |-> "null"]
Str(s) == [t |-> "str", s |-> s]
Bool(b) == [t |-> "bool", b |-> b]
Num(n) == [t |-> "num", n |-> n]
Dict(d) == [t |-> "dict", d |-> d]

IsStr(v) == v.t = "str"

\* bool(v): what `if v`, `not v` and `and` test.
Truthy(v) ==
    CASE v.t = "null" -> FALSE
      [] v.t = "str"  -> v.s # <<>>
      [] v.t = "bool" -> v.b
      [] v.t = "num"  -> v.n # 0
      [] v.t = "dict" -> DOMAIN v.d # {}

\* dict.get(key, default) on a dict modelled as a function over its keys.
Get(d, key, default) == IF key \in DOMAIN d THEN d[key] ELSE default

\* A dict cannot be a dict key (unhashable type).
Hashable(v) == v.t # "dict"

-----------------------------------------------------------------------------
(* String literals of the code *)

NON_SPECIFIE == <<"N","o","n"," ","s","p","é","c","i","f","i","é">>
CHEF_CHEFTAINE == <<"C","h","e","f","/","C","h","e","f","t","a","i","n","e">>
LOUVETEAU == <<"L","O","U","V","E","T","E","A","U">>
MOUSSAILLON == <<"M","O","U","S","S","A","I","L","L","O","N">>
MOUSSE == <<"M","O","U","S","S","E">>
SCOUT == <<"S","C","O","U","T">>
PIONNIER == <<"P","I","O","N","N","I","E","R">>
MARIN == <<"M","A","R","I","N">>
LOUVETEAU_MOUSSAILLON == LOUVETEAU \o <<"/">> \o MOUSSAILLON
SCOUT_MOUSSE == SCOUT \o <<"/">> \o MOUSSE
PIONNIER_MARIN == PIONNIER \o <<"/">> \o MARIN
chef_espace == <<"c","h","e","f"," ">>
responsable_d_unite == <<"r","e","s","p","o","n","s","a","b","l","e"," ",
                         "d","'","u","n","i","t","e">>

\* Outcome of a call that raised instead of returning.
Raise == [t |-> "raise"]
\* No call made yet.
NonAppele == [t |-> "none"]

-----------------------------------------------------------------------------
(* normalize_fonction *)

\* A faulty variant: the prefix test without its trailing space.
normalize_fonction_sans_espace(fonction) ==
    IF ~Truthy(fonction) THEN Str(NON_SPECIFIE)
    ELSE IF ~IsStr(fonction) THEN Raise
    ELSE IF \/ startswith(str_lower(fonction.s), <<"c","h","e","f">>)
            \/ startswith(str_lower(fonction.s), responsable_d_unite)
         THEN Str(CHEF_CHEFTAINE)
    ELSE IF str_upper(fonction.s) \in {LOUVETEAU, MOUSSAILLON} THEN Str(LOUVETEAU_MOUSSAILLON)
    ELSE IF str_upper(fonction.s) \in {MOUSSE, SCOUT} THEN Str(SCOUT_MOUSSE)
    ELSE IF str_upper(fonction.s) \in {PIONNIER, MARIN} THEN Str(PIONNIER_MARIN)
    ELSE fonction

\* Returns the canonical role, or Raise when fonction is truthy and has no
\* upper() (a number, True, a dict): AttributeError.
normalize_fonction(fonction) ==
    IF ~Truthy(fonction) THEN Str(NON_SPECIFIE)
    ELSE IF ~IsStr(fonction) THEN Raise
    ELSE IF \/ startswith(str_lower(fonction.s), chef_espace)
            \/ startswith(str_lower(fonction.s), responsable_d_unite)
         THEN Str(CHEF_CHEFTAINE)
    ELSE IF str_upper(fonction.s) \in {LOUVETEAU, MOUSSAILLON} THEN Str(LOUVETEAU_MOUSSAILLON)
    ELSE IF str_upper(fonction.s) \in {MOUSSE, SCOUT} THEN Str(SCOUT_MOUSSE)
    ELSE IF str_upper(fonction.s) \in {PIONNIER, MARIN} THEN Str(PIONNIER_MARIN)
    ELSE fonction

-----------------------------------------------------------------------------
(* The snapshot files: the input of load_data *)

\* Size of the folders explored: a file weighs 1 plus the number of entries of
\* its "adherents" array.
MaxTaille == 4

A1 == Str(<<"A","1">>)
A2 == Str(<<"A","2">>)
BR == Str(<<"l","o","u","v">>)
S1 == Str(<<"S","1">>)
S2 == Str(<<"S","2">>)
ADHERENT == <<"A","D","H","E","R","E","N","T">>
PREINSCRIT == <<"P","R","E","I","N","S","C","R","I","T">>
SCOUT_DIR == <<"S","c","o","u","t"," ","D","i","r">>
directeur == <<"d","i","r","e","c","t","e","u","r">>

\* A leader with a code: given name set, family name empty, pre-enrolled.
AdhChef ==
    Dict([codeAdherent |-> A1, branche |-> BR,
          fonction |-> Str(<<"C","h","e","f"," ","M">>),
          codeStructure |-> S1, nomStructure |-> Str(<<"N","1">>),
          status |-> Str(PREINSCRIT),
          prenom |-> Str(<<"j","E","A","N">>), nom |-> Str(<<>>),
          appro |-> Bool(TRUE)])
\* Same code, no unit code: fills the family name, and disagrees on role and status.
AdhConflit ==
    Dict([codeAdherent |-> A1, branche |-> BR, fonction |-> Str(<<"l","o","u","v","e","t","e","a","u">>),
          status |-> Str(ADHERENT),
          prenom |-> Str(<<>>), nom |-> Str(<<"d","u","p">>)])
\* Same code: only fills gaps (family name, diplomeJS); its unit code is null
\* and its apf flag false.
AdhComplement ==
    Dict([codeAdherent |-> A1, codeStructure |-> None,
          prenom |-> Str(<<>>), nom |-> Str(<<"d","u","p">>),
          diplomeJS |-> Str(SCOUT_DIR), apf |-> Bool(FALSE)])
\* A youth with another code and a status that is neither ADHERENT nor PREINSCRIT.
AdhJeune ==
    Dict([codeAdherent |-> A2, branche |-> BR, fonction |-> Str(<<"S","c","o","u","t">>),
          codeStructure |-> S1, nomStructure |-> Str(<<"N","2">>),
          status |-> Str(<<"X">>)])
\* Same code as the youth: a leader role, no branch, a null given name.
AdhPrenomNul ==
    Dict([codeAdherent |-> A2, fonction |-> Str(<<"c","h","e","f">>),
          prenom |-> None, tech |-> Bool(TRUE)])
\* No member code (empty string): a leader qualified by qualificationDir.
AdhSansCode ==
    Dict([codeAdherent |-> Str(<<>>), branche |-> BR,
          fonction |-> Str(<<"R","e","s","p","o","n","s","a","b","l","e"," ",
                             "d","'","U","n","i","t","e">>),
          codeStructure |-> S2,
          qualificationDir |-> Dict([type |-> Str(<<"D","I","R","E","C","T","E","U","R">>)]),
          apf |-> Bool(TRUE)])
\* An entry of the "adherents" array that is not an object.
PasUnObjet == Str(<<"x">>)

Entrees == {AdhChef, AdhConflit, AdhComplement, AdhJeune, AdhPrenomNul,
            AdhSansCode, PasUnObjet}

RECURSIVE SeqJusqua(_, _)
SeqJusqua(S, n) ==
    IF n <= 0 THEN {<<>>}
    ELSE {<<>>} \cup UNION {{<<x>> \o q : q \in SeqJusqua(S, n - 1)} : x \in S}

\* kind: "structure" (the file is structure.json), "vide" (empty or blank),
\* "invalide" (json.loads fails), "liste" (a top-level list), "scalaire" (valid
\* JSON that is neither a list nor an object), "objet".
Fichier(kind, adherents) == [kind |-> kind, adherents |-> adherents]

Taille(f) == 1 + Len(f.adherents)

Fichiers(n) ==
    IF n <= 0 THEN {}
    ELSE {Fichier(k, <<>>) : k \in {"structure", "vide", "invalide", "scalaire"}}
         \cup {Fichier("liste", q) : q \in SeqJusqua(Entrees, IF n > 1 THEN 1 ELSE 0)}
         \cup {Fichier("objet", q) : q \in SeqJusqua(Entrees, n - 1)}

RECURSIVE Dossiers(_)
Dossiers(n) ==
    {<<>>} \cup UNION {{<<f>> \o d : d \in Dossiers(n - Taille(f))} : f \in Fichiers(n)}

\* A folder holds one structure.json at most.
DossiersValides(n) ==
    {d \in Dossiers(n) : Cardinality({i \in DOMAIN d : d[i].kind = "structure"}) <= 1}

Identite(n) == [i \in 1..n |-> i]

-----------------------------------------------------------------------------
(* load_data, first pass: collect the unique adherents *)

\* The state load_data starts from, its locals freshly initialised.
Debut(d, o, prec) ==
    /\ dossier = d
    /\ ordre = o
    /\ pc = "pass1"
    /\ fi = 1
    /\ ri = 0
    /\ adherents_uniques = <<>>
    /\ fichiers_traites = 0
    /\ fichiers_erreur = <<>>
    /\ ui = 0
    /\ result = <<>>
    /\ adherents_traites = 0
    /\ adherents_ignores = 0
    /\ precedent = prec

\* No previous call.
Aucun == [pc |-> "aucun"]

\* The statistics page is not being rendered.
\* No second call of the quota check, no branch being rendered, no run of
\* the application yet.
ComplementInactif == quota_prec = Aucun
RenduInactif == branche_arg = <<>> /\ df_final = NonAppele /\ styled = <<>> /\ all_alerts = {}
SessionInactive ==
    session_state = <<>> /\ page = "aucune" /\ apis = <<>> /\ message = NonAppele

ComplementInchange == UNCHANGED quota_prec
RenduInchange == UNCHANGED <<branche_arg, df_final, styled, all_alerts>>
SessionInchangee == UNCHANGED <<session_state, page, apis, message>>

PageInactive ==
    /\ row = <<>>
    /\ quota_arg = <<>>
    /\ quota_ret = NonAppele
    /\ details_alertes_camp = <<>>
    /\ highlight_ret = NonAppele
    /\ ComplementInactif /\ RenduInactif /\ SessionInactive

PageInchangee ==
    /\ UNCHANGED <<row, quota_arg, quota_ret, details_alertes_camp, highlight_ret>>
    /\ ComplementInchange /\ RenduInchange /\ SessionInchangee

Init ==
    /\ \E d \in DossiersValides(MaxTaille) : Debut(d, Identite(Len(d)), Aucun)
    /\ fonction_arg = None
    /\ fonction_ret = NonAppele
    /\ PageInactive

\* The file the loop of line 168 is at.
FichierCourant == dossier[ordre[fi]]

\* The loop moves to the next file.
FichierSuivant == fi' = fi + 1 /\ ri' = 0

\* An entry of fichiers_erreur: the file's name (its index in the folder) and
\* the reason in brackets after it.
Erreur(raison) == <<ordre[fi], raison>>

Pass2Inchange == UNCHANGED <<ui, result, adherents_traites, adherents_ignores>>
HorsAppel ==
    /\ UNCHANGED <<dossier, ordre, precedent, fonction_arg, fonction_ret>>
    /\ PageInchangee

\* Lines 170-171: structure.json is skipped.
IgnorerStructure ==
    /\ pc = "pass1" /\ fi <= Len(ordre) /\ ri = 0
    /\ FichierCourant.kind = "structure"
    /\ FichierSuivant
    /\ UNCHANGED <<pc, adherents_uniques, fichiers_traites, fichiers_erreur>>
    /\ Pass2Inchange /\ HorsAppel

\* The reason recorded for a file rejected before it is counted.
RaisonRejet(kind) ==
    CASE kind = "vide" -> "fichier vide"
      [] kind = "invalide" -> "JSON invalide"
      [] kind = "liste" -> "format liste"

\* A faulty variant: a list is not rejected, its entries are read like an object's.
KindsRejetes_sans_liste == {"vide", "invalide"}

\* The shapes lines 178-192 reject.
KindsRejetes == {"vide", "invalide", "liste"}

\* Lines 178-192: an empty file, invalid JSON or a top-level list is reported
\* and skipped.
RejeterFichier ==
    /\ pc = "pass1" /\ fi <= Len(ordre) /\ ri = 0
    /\ FichierCourant.kind \in KindsRejetes
    /\ fichiers_erreur' = Append(fichiers_erreur, Erreur(RaisonRejet(FichierCourant.kind)))
    /\ FichierSuivant
    /\ UNCHANGED <<pc, adherents_uniques, fichiers_traites>>
    /\ Pass2Inchange /\ HorsAppel

\* Lines 194-196: the file is counted, then data.get("adherents", []) is
\* evaluated. On a JSON scalar data.get raises, which line 215 catches.
OuvrirFichier ==
    /\ pc = "pass1" /\ fi <= Len(ordre) /\ ri = 0
    /\ FichierCourant.kind \notin KindsRejetes \cup {"structure"}
    /\ fichiers_traites' = fichiers_traites + 1
    /\ IF FichierCourant.kind = "scalaire"
       THEN /\ fichiers_erreur' = Append(fichiers_erreur, Erreur("exception"))
            /\ FichierSuivant
       ELSE /\ UNCHANGED fichiers_erreur
            /\ IF FichierCourant.adherents = <<>>
               THEN FichierSuivant
               ELSE fi' = fi /\ ri' = 1
    /\ UNCHANGED <<pc, adherents_uniques>>
    /\ Pass2Inchange /\ HorsAppel

\* The entry of the "adherents" array the inner loop is at.
EntreeCourante == FichierCourant.adherents[ri]

\* id(adherent): the identity of the object parsed at this place of this file.
Id(f, r) == [t |-> "id", f |-> f, r |-> r]

\* key in adherents_uniques
Contient(uniques, key) == \E i \in DOMAIN uniques : uniques[i].key = key

Position(uniques, key) == CHOOSE i \in DOMAIN uniques : uniques[i].key = key

\* A faulty variant: a later truthy value overwrites the accumulator's.
fusionner_dernier_gagne(existant, adherent) ==
    [k \in DOMAIN existant \cup {x \in DOMAIN adherent : Truthy(adherent[x])} |->
        IF k \in DOMAIN adherent /\ Truthy(adherent[k]) THEN adherent[k] ELSE existant[k]]

\* A faulty variant: a later record fills no gap, the first record is kept as it is.
fusionner_sans_complement(existant, adherent) == existant

\* A faulty variant: the merged record is rebuilt from the truthy values alone.
fusionner_sans_valeurs_vides(existant, adherent) ==
    LET vrai(d) == {x \in DOMAIN d : Truthy(d[x])}
    IN [k \in vrai(existant) \cup vrai(adherent) |->
           IF k \in vrai(existant) THEN existant[k] ELSE adherent[k]]

\* Lines 208-210: a truthy value of the later record fills a key that is absent
\* or falsy in the accumulator.
fusionner(existant, adherent) ==
    LET comble(k) == /\ k \in DOMAIN adherent
                     /\ Truthy(adherent[k])
                     /\ ~Truthy(Get(existant, k, None))
    IN [k \in DOMAIN existant \cup {x \in DOMAIN adherent : comble(x)} |->
           IF comble(k) THEN adherent[k] ELSE existant[k]]

\* Line 213: the key of a record without a code.
cle_sans_code(f, r) == Id(f, r)

\* A faulty variant: every record is stored under a key of its own, code or not.
enregistrer_sans_dedoublonner(uniques, adherent, f, r) ==
    LET code_adherent == Get(adherent, "codeAdherent", None) IN
    IF Truthy(code_adherent)
    THEN Append(uniques, [key |-> code_adherent, adherent |-> adherent])
    ELSE Append(uniques, [key |-> cle_sans_code(f, r), adherent |-> adherent])

\* Lines 197-213 on one record (a dict) of the file.
enregistrer(uniques, adherent, f, r) ==
    LET code_adherent == Get(adherent, "codeAdherent", None) IN
    IF Truthy(code_adherent)
    THEN IF ~Contient(uniques, code_adherent)
         THEN Append(uniques, [key |-> code_adherent, adherent |-> adherent])
         ELSE [uniques EXCEPT ![Position(uniques, code_adherent)].adherent =
                                  fusionner(@, adherent)]
    ELSE Append(uniques, [key |-> cle_sans_code(f, r), adherent |-> adherent])

\* What makes lines 197-213 raise on an entry: adherent.get on something that
\* is not a dict, or an unhashable codeAdherent used as a key.
EntreeLeve(e) ==
    IF e.t # "dict" THEN TRUE
    ELSE LET code == Get(e.d, "codeAdherent", None) IN Truthy(code) /\ ~Hashable(code)

\* After the entry at ri: the next entry, or the next file.
EntreeSuivante ==
    IF ri < Len(FichierCourant.adherents)
    THEN fi' = fi /\ ri' = ri + 1
    ELSE FichierSuivant

\* Lines 196-213: one turn of the inner loop.
FusionnerAdherent ==
    /\ pc = "pass1" /\ fi <= Len(ordre) /\ ri >= 1
    /\ ~EntreeLeve(EntreeCourante)
    /\ adherents_uniques' = enregistrer(adherents_uniques, EntreeCourante.d, ordre[fi], ri)
    /\ EntreeSuivante
    /\ UNCHANGED <<pc, fichiers_traites, fichiers_erreur>>
    /\ Pass2Inchange /\ HorsAppel

\* Lines 215-217: an exception inside the inner loop ends the file; what the
\* file has already put in adherents_uniques stays.
ExceptionFichier ==
    /\ pc = "pass1" /\ fi <= Len(ordre) /\ ri >= 1
    /\ EntreeLeve(EntreeCourante)
    /\ fichiers_erreur' = Append(fichiers_erreur, Erreur("exception"))
    /\ FichierSuivant
    /\ UNCHANGED <<pc, adherents_uniques, fichiers_traites>>
    /\ Pass2Inchange /\ HorsAppel

\* Line 220: the first loop is over, the second starts.
DebuterDeuxiemePasse ==
    /\ pc = "pass1" /\ fi > Len(ordre)
    /\ pc' = "pass2"
    /\ ui' = 1
    /\ UNCHANGED <<fi, ri, adherents_uniques, fichiers_traites, fichiers_erreur,
                   result, adherents_traites, adherents_ignores>>
    /\ HorsAppel

-----------------------------------------------------------------------------
(* load_data, second pass: aggregate the unique adherents *)

\* A faulty variant: a new cell starts at one.
status_dict_factory_un == [ADHERENT |-> 1, PREINSCRIT |-> 0]

status_dict_factory == [ADHERENT |-> 0, PREINSCRIT |-> 0]

\* The node a first access to result[branche][code_structure] creates; it has
\* no 'nom_structure' key yet.
structure_data_factory == [functions |-> <<>>, chefs |-> <<>>, diplomes |-> <<>>]

\* A faulty variant: leadership read off the canonical role.
is_chef_canonique(fonction) == normalize_fonction(Str(fonction)) = Str(CHEF_CHEFTAINE)

\* Lines 249-254, on the raw role.
is_chef(fonction) ==
    \/ startswith(str_lower(fonction), <<"c","h","e","f">>)
    \/ startswith(str_lower(fonction), <<"r","e","s","p","o","n","s","a","b","l","e">>)
    \/ startswith(str_lower(fonction), <<"c","o","m","p","a","g","n","o","n">>)
    \/ startswith(str_lower(fonction),
                  <<"a","c","c","o","m","p","a","g","n","a","t","e","u","r">>)

\* Lines 257-261: the display name, or Raise when prenom or nom is present
\* and is not a string (None has no capitalize()).
nom_affiche(adherent) ==
    LET prenom == Get(adherent, "prenom", Str(<<>>))
        nom == Get(adherent, "nom", Str(<<>>))
    IN IF IsStr(prenom) /\ IsStr(nom)
       THEN Str(str_capitalize(prenom.s) \o <<" ">> \o str_capitalize(nom.s))
       ELSE Raise

\* A faulty variant: the appro flag is read before the director test.
diplomJS_appro_dabord(adherent) ==
    LET q == Get(adherent, "qualificationDir", None)
        type == Get(q.d, "type", Str(<<>>))
        suite == IF Truthy(Get(adherent, "tech", None)) THEN "Tech"
                 ELSE IF Truthy(Get(adherent, "apf", None)) THEN "APF"
                 ELSE "-"
    IN IF Truthy(Get(adherent, "appro", None)) THEN "Appro"
       ELSE IF Get(adherent, "diplomeJS", None) = Str(SCOUT_DIR) THEN "Directeur"
       ELSE IF Truthy(q) /\ q.t = "dict"
            THEN IF ~IsStr(type) THEN "raise"
                 ELSE IF str_contains(str_lower(type.s), directeur) THEN "Directeur"
                 ELSE suite
            ELSE suite

\* Lines 264-279: the diploma level, or "raise" when qualificationDir is a
\* non-empty dict whose type is not a string (None has no lower()).
diplomJS(adherent) ==
    LET q == Get(adherent, "qualificationDir", None)
        type == Get(q.d, "type", Str(<<>>))
        suite == IF Truthy(Get(adherent, "appro", None)) THEN "Appro"
                 ELSE IF Truthy(Get(adherent, "tech", None)) THEN "Tech"
                 ELSE IF Truthy(Get(adherent, "apf", None)) THEN "APF"
                 ELSE "-"
    IN IF Get(adherent, "diplomeJS", None) = Str(SCOUT_DIR) THEN "Directeur"
       ELSE IF Truthy(q) /\ q.t = "dict"
            THEN IF ~IsStr(type) THEN "raise"
                 ELSE IF str_contains(str_lower(type.s), directeur) THEN "Directeur"
                 ELSE suite
            ELSE suite

\* A faulty variant: every record counts as ADHERENT.
cellule_toujours_adherent(status) == "ADHERENT"

\* Lines 238-241: the status cell a record counts in.
cellule(status) ==
    IF status = Str(PREINSCRIT) THEN "PREINSCRIT" ELSE "ADHERENT"

\* A faulty variant: the unit code is not required.
retenu_sans_structure(adherent) ==
    /\ Truthy(Get(adherent, "branche", None))
    /\ Truthy(Get(adherent, "fonction", None))

\* Line 229: the record has a branch, a role and a unit code.
retenu(adherent) ==
    /\ Truthy(Get(adherent, "branche", None))
    /\ Truthy(Get(adherent, "fonction", None))
    /\ Truthy(Get(adherent, "codeStructure", None))

\* What makes lines 231-293 raise on a retained record.
AdherentLeve(adherent) ==
    LET fonction == Get(adherent, "fonction", None) IN
    \/ normalize_fonction(fonction) = Raise
    \/ ~Hashable(Get(adherent, "branche", None))
    \/ ~Hashable(Get(adherent, "codeStructure", None))
    \/ /\ IsStr(fonction) /\ is_chef(fonction.s)
       /\ (nom_affiche(adherent) = Raise \/ diplomJS(adherent) = "raise")

\* Lines 231-293: the aggregate after a retained record that does not raise.
agreger(res, adherent) ==
    LET branche == Get(adherent, "branche", None)
        code_groupe == Get(adherent, "codeGroupe", None)
        code_structure == Get(adherent, "codeStructure", None)
        nom_structure == Get(adherent, "nomStructure", Str(NON_SPECIFIE))
        fonction == Get(adherent, "fonction", None)
        status == Get(adherent, "status", Str(ADHERENT))
        fonction_normalisee == normalize_fonction(fonction).s
        cle == <<branche, code_structure>>
        n0 == IF cle \in DOMAIN res THEN res[cle] ELSE structure_data_factory
        f0 == IF fonction_normalisee \in DOMAIN n0.functions
              THEN n0.functions
              ELSE (fonction_normalisee :> status_dict_factory) @@ n0.functions
        f1 == [f0 EXCEPT ![fonction_normalisee][cellule(status)] = @ + 1]
        n1 == IF "nom_structure" \in DOMAIN n0
              THEN [n0 EXCEPT !.functions = f1]
              ELSE [functions |-> f1, chefs |-> n0.chefs, diplomes |-> n0.diplomes,
                    nom_structure |-> nom_structure]
        niveau == diplomJS(adherent)
        d0 == IF fonction_normalisee \in DOMAIN n1.diplomes
              THEN n1.diplomes
              ELSE (fonction_normalisee :> <<>>) @@ n1.diplomes
        d1 == [d0 EXCEPT ![fonction_normalisee] =
                  IF niveau \in DOMAIN @ THEN [@ EXCEPT ![niveau] = @ + 1]
                  ELSE (niveau :> 1) @@ @]
        chef == [prenom |-> nom_affiche(adherent), diplomeJS |-> niveau,
                 status |-> status, fonction |-> fonction_normalisee,
                 codeStructure |-> code_structure, nomStructure |-> nom_structure,
                 codeGroupe |-> code_groupe,
                 codeAdherent |-> Get(adherent, "codeAdherent", Str(<<"N","/","A">>))]
        n2 == IF is_chef(fonction.s)
              THEN [n1 EXCEPT !.diplomes = d1, !.chefs = Append(@, chef)]
              ELSE n1
    IN (cle :> n2) @@ res

Pass1Inchange == UNCHANGED <<fi, ri, adherents_uniques, fichiers_traites, fichiers_erreur>>

\* The record the loop of line 220 is at.
AdherentCourant == adherents_uniques[ui].adherent

\* Lines 229-293: a retained record is counted in its unit.
CompterAdherent ==
    /\ pc = "pass2" /\ ui <= Len(adherents_uniques)
    /\ retenu(AdherentCourant)
    /\ ~AdherentLeve(AdherentCourant)
    /\ result' = agreger(result, AdherentCourant)
    /\ adherents_traites' = adherents_traites + 1
    /\ ui' = ui + 1
    /\ UNCHANGED <<pc, adherents_ignores>>
    /\ Pass1Inchange /\ HorsAppel

\* Lines 294-295: a record without branch, role or unit code.
IgnorerAdherent ==
    /\ pc = "pass2" /\ ui <= Len(adherents_uniques)
    /\ ~retenu(AdherentCourant)
    /\ adherents_ignores' = adherents_ignores + 1
    /\ ui' = ui + 1
    /\ UNCHANGED <<pc, result, adherents_traites>>
    /\ Pass1Inchange /\ HorsAppel

\* No try surrounds the second loop: an exception on a retained record leaves
\* load_data, and its locals are lost with its frame.
LeverException ==
    /\ pc = "pass2" /\ ui <= Len(adherents_uniques)
    /\ retenu(AdherentCourant)
    /\ AdherentLeve(AdherentCourant)
    /\ pc' = "raised"
    /\ UNCHANGED <<ui, result, adherents_traites, adherents_ignores>>
    /\ Pass1Inchange /\ HorsAppel

\* Line 297.
Retourner ==
    /\ pc = "pass2" /\ ui > Len(adherents_uniques)
    /\ pc' = "done"
    /\ UNCHANGED <<ui, result, adherents_traites, adherents_ignores>>
    /\ Pass1Inchange /\ HorsAppel

Next ==
    \/ IgnorerStructure
    \/ RejeterFichier
    \/ OuvrirFichier
    \/ FusionnerAdherent
    \/ ExceptionFichier
    \/ DebuterDeuxiemePasse
    \/ CompterAdherent
    \/ IgnorerAdherent
    \/ LeverException
    \/ Retourner

Spec == Init /\ [][Next]_vars

-----------------------------------------------------------------------------
(* The page calls load_data again at each rerun of the script *)

\* What a call of load_data leaves: what it returned, or that it raised.
Issue ==
    [pc |-> pc, ordre |-> ordre, adherents_uniques |-> adherents_uniques,
     result |-> result, fichiers_traites |-> fichiers_traites,
     adherents_traites |-> adherents_traites, adherents_ignores |-> adherents_ignores,
     fichiers_erreur |-> fichiers_erreur]

\* A second call on the unchanged folder; glob.glob gives the files in an
\* arbitrary order.
Relancer ==
    /\ pc \in {"done", "raised"}
    /\ precedent = Aucun
    /\ precedent' = Issue
    /\ ordre' \in Permutations(1..Len(dossier))
    /\ pc' = "pass1"
    /\ fi' = 1
    /\ ri' = 0
    /\ adherents_uniques' = <<>>
    /\ fichiers_traites' = 0
    /\ fichiers_erreur' = <<>>
    /\ ui' = 0
    /\ result' = <<>>
    /\ adherents_traites' = 0
    /\ adherents_ignores' = 0
    /\ UNCHANGED <<dossier, fonction_arg, fonction_ret>>
    /\ PageInchangee

NextRelance == Next \/ Relancer

\* Number of files of the folders that are read twice.
MaxFichiersRelance == 3

InitRelance == Init /\ Len(dossier) <= MaxFichiersRelance

SpecRelance == InitRelance /\ [][NextRelance]_vars

-----------------------------------------------------------------------------
(* normalize_fonction called on its own *)

\* w with its first k characters in one case and the rest in the other.
Casse(w, k, haut) ==
    [i \in 1..Len(w) |-> IF (i <= k) = haut THEN upper_char(w[i]) ELSE lower_char(w[i])]

Variantes(w) == {Casse(w, k, haut) : k \in 0..Len(w), haut \in BOOLEAN}

Mots ==
    {<<"c","h","e","f">>, chef_espace, chef_espace \o <<"m","e","u","t","e">>,
     <<"c","h","e","f","t","a","i","n","e">>, <<"x"," ">> \o chef_espace,
     responsable_d_unite, responsable_d_unite \o <<" ","s","g">>,
     <<"r","e","s","p","o","n","s","a","b","l","e">>,
     <<"r","e","s","p","o","n","s","a","b","l","e"," ","d","'","u","n","i","t">>,
     LOUVETEAU, MOUSSAILLON, MOUSSE, SCOUT, PIONNIER, MARIN,
     LOUVETEAU \o <<"x">>, <<" ">> \o SCOUT, SCOUT \o <<" ">>, MARIN \o <<"s">>,
     <<"m","o","u","s","s">>, LOUVETEAU_MOUSSAILLON,
     <<"c","o","m","p","a","g","n","o","n">>, <<"f","a","r","f","a","d","e","t">>}

\* The roles normalize_fonction is called with: absent, empty, and the words
\* above in mixed case.
Fonctions == {None, Str(<<>>)} \cup {Str(v) : v \in UNION {Variantes(m) : m \in Mots}}

InitNormalise ==
    /\ Debut(<<>>, <<>>, Aucun)
    /\ fonction_arg \in Fonctions
    /\ fonction_ret = NonAppele
    /\ PageInactive

\* Line 231, or any caller: one call of normalize_fonction.
AppelerNormalize ==
    /\ fonction_ret = NonAppele
    /\ fonction_ret' = normalize_fonction(fonction_arg)
    /\ UNCHANGED <<dossier, ordre, pc, fi, ri, adherents_uniques, fichiers_traites,
                   fichiers_erreur, ui, result, adherents_traites, adherents_ignores,
                   precedent, fonction_arg>>
    /\ PageInchangee

NextNormalise == AppelerNormalize

SpecNormalise == InitNormalise /\ [][NextNormalise]_vars

-----------------------------------------------------------------------------
(* What the folder says, independently of load_data's variables *)

Min(S) == CHOOSE x \in S : \A y \in S : x <= y

\* The file glob.glob gives at place j of this run.
FichierEn(j) == dossier[ordre[j]]

\* The entries of an object file that precede its first entry that is not a
\* record with a usable code: the ones the inner loop reaches and stores.
NbAtteintes(f) ==
    LET echecs == {i \in DOMAIN f.adherents : EntreeLeve(f.adherents[i])}
    IN IF echecs = {} THEN Len(f.adherents) ELSE Min(echecs) - 1

\* How many entries of the file at place j have been stored so far.
NbLues(j) ==
    IF FichierEn(j).kind # "objet" THEN 0
    ELSE IF j < fi THEN NbAtteintes(FichierEn(j))
    ELSE IF j = fi /\ ri >= 1 THEN ri - 1
    ELSE 0

RECURSIVE RencontresJusqua(_)
RencontresJusqua(j) ==
    IF j = 0 THEN <<>>
    ELSE RencontresJusqua(j - 1) \o
         [i \in 1..NbLues(j) |-> FichierEn(j).adherents[i].d]

\* The records stored so far, in encounter order.
Rencontres == RencontresJusqua(Len(ordre))

CodeDe(adherent) == Get(adherent, "codeAdherent", None)

\* The records met so far that carry the member code c, in encounter order.
RencontresDe(c) ==
    LET memeCode(a) == CodeDe(a) = c IN SelectSeq(Rencontres, memeCode)

\* The entries of the working set stored under a member code.
EntreesCodees == {i \in DOMAIN adherents_uniques : adherents_uniques[i].key.t # "id"}

Champs(L) == UNION {DOMAIN L[i] : i \in DOMAIN L}

\* The first truthy value of field k in the sequence of records L.
PremierVrai(L, k) ==
    LET vrais == {i \in DOMAIN L : k \in DOMAIN L[i] /\ Truthy(L[i][k])}
    IN L[Min(vrais)][k]

AUnVrai(L, k) == \E i \in DOMAIN L : k \in DOMAIN L[i] /\ Truthy(L[i][k])

-----------------------------------------------------------------------------
(* Claims *)

\* C1: at every point of the first pass, for each member code, every field for
\* which some record met so far holds a truthy value holds, in the merged
\* record, the first such value in encounter order.
C1_PremiereValeurVraie ==
    \A i \in EntreesCodees :
        LET e == adherents_uniques[i]
            L == RencontresDe(e.key)
        IN \A k \in Champs(L) :
               AUnVrai(L, k) =>
                   k \in DOMAIN e.adherent /\ e.adherent[k] = PremierVrai(L, k)

\* C1 witness: code A1 was met twice; the given name comes from the first
\* record, the family name (empty in the first) from the second, and the role
\* on which they disagree is the first record's.
C1_Temoin ==
    /\ pc = "pass2"
    /\ RencontresDe(A1) = <<AdhChef.d, AdhConflit.d>>
    /\ \E i \in EntreesCodees :
          /\ adherents_uniques[i].key = A1
          /\ adherents_uniques[i].adherent.prenom = AdhChef.d.prenom
          /\ adherents_uniques[i].adherent.nom = AdhConflit.d.nom
          /\ adherents_uniques[i].adherent.fonction = AdhChef.d.fonction

\* C2: when every record met so far for a member code equals the first one,
\* the merged record equals that first record: same keys, same values.
C2_FusionIdempotente ==
    \A i \in EntreesCodees :
        LET e == adherents_uniques[i]
            L == RencontresDe(e.key)
        IN (\A j \in DOMAIN L : L[j] = L[1]) => e.adherent = L[1]

\* C2 witness: the same record, with an empty field, was met three times.
C2_Temoin ==
    /\ pc = "pass2"
    /\ RencontresDe(A1) = <<AdhChef.d, AdhChef.d, AdhChef.d>>
    /\ \E i \in EntreesCodees : adherents_uniques[i].adherent = AdhChef.d

\* A file load_data does not report in fichiers_erreur, structure.json apart.
Accepte(j) ==
    /\ FichierEn(j).kind = "objet"
    /\ \A n \in DOMAIN fichiers_erreur : fichiers_erreur[n][1] # ordre[j]

\* The places, in this run's order, of the accepted files.
PlacesAcceptees == {j \in DOMAIN ordre : Accepte(j)}

\* The member codes that appear in the accepted files.
CodesAcceptes ==
    {c \in UNION {{CodeDe(FichierEn(j).adherents[i].d) : i \in DOMAIN FichierEn(j).adherents} :
                     j \in PlacesAcceptees} : Truthy(c)}

NbEntreesSous(c) ==
    Cardinality({i \in DOMAIN adherents_uniques : adherents_uniques[i].key = c})

\* C3: once the first pass is over, every member code that appears in an
\* accepted file has exactly one entry in the working set, no key has two
\* entries, and when load_data returns it has counted each entry once
\* (processed or ignored).
C3_UneEntreeParCode ==
    pc \in {"pass2", "done"} =>
        /\ \A c \in CodesAcceptes : NbEntreesSous(c) = 1
        /\ \A i \in DOMAIN adherents_uniques : NbEntreesSous(adherents_uniques[i].key) = 1
        /\ pc = "done" => adherents_traites + adherents_ignores = Len(adherents_uniques)

\* C3 witness: code A1 appears in two accepted files; the working set has one
\* entry, counted once.
C3_Temoin ==
    /\ pc = "done"
    /\ Len(ordre) = 2 /\ PlacesAcceptees = {1, 2}
    /\ \A j \in {1, 2} :
          /\ Len(FichierEn(j).adherents) = 1
          /\ CodeDe(FichierEn(j).adherents[1].d) = A1
    /\ Len(adherents_uniques) = 1
    /\ adherents_traites + adherents_ignores = 1

\* The files already handled by the first loop, as places of this run's order.
PlacesVues == {j \in DOMAIN ordre : j < fi}

\* C5: every file handled so far that is empty, invalid JSON or a top-level
\* list has exactly one entry in fichiers_erreur, which names it with its
\* reason; fichiers_traites counts none of them; the working set holds nothing
\* but the records of the object files; and the loop only ends once every file
\* of the folder has been handled.
C5_RejetSansAbandon ==
    /\ \A j \in PlacesVues :
          FichierEn(j).kind \in {"vide", "invalide", "liste"} =>
              /\ Cardinality({n \in DOMAIN fichiers_erreur :
                                 fichiers_erreur[n][1] = ordre[j]}) = 1
              /\ \E n \in DOMAIN fichiers_erreur :
                    fichiers_erreur[n] = <<ordre[j], RaisonRejet(FichierEn(j).kind)>>
    /\ fichiers_traites =
          Cardinality({j \in DOMAIN ordre :
                          /\ j < fi \/ (j = fi /\ ri >= 1)
                          /\ FichierEn(j).kind \in {"objet", "scalaire"}})
    /\ \A i \in DOMAIN adherents_uniques :
          LET e == adherents_uniques[i] IN
          IF e.key.t = "id" THEN dossier[e.key.f].kind = "objet"
          ELSE RencontresDe(e.key) # <<>>
    /\ pc # "pass1" => PlacesVues = DOMAIN ordre

\* C5 witness: a top-level list holding a record was rejected, and the object
\* file after it gave its record to the working set.
C5_Temoin ==
    /\ pc = "pass2"
    /\ Len(ordre) = 2
    /\ FichierEn(1) = Fichier("liste", <<AdhJeune>>)
    /\ FichierEn(2) = Fichier("objet", <<AdhChef>>)
    /\ fichiers_erreur = <<<<1, "format liste">>>>
    /\ fichiers_traites = 1
    /\ Len(adherents_uniques) = 1 /\ adherents_uniques[1].key = A1

\* The records without a member code of the accepted files, as (place, index).
SansCodeAcceptes ==
    UNION {{<<j, i>> : i \in {x \in DOMAIN FichierEn(j).adherents :
                                 ~Truthy(CodeDe(FichierEn(j).adherents[x].d))}} :
              j \in PlacesAcceptees}

\* C4: once the first pass is over, the working set has as many entries as
\* there are distinct member codes plus records without a code in the
\* accepted files.
C4_TailleEnsemble ==
    pc \in {"pass2", "done"} =>
        Len(adherents_uniques) = Cardinality(CodesAcceptes) + Cardinality(SansCodeAcceptes)

\* C6: load_data never raises.
C6_JamaisFatal == pc # "raised"

\* A merged record cut down to its truthy fields.
Vrais(a) == [k \in {x \in DOMAIN a : Truthy(a[x])} |-> a[k]]

\* The working set without its insertion order.
Fusionnes(uniques) == {uniques[i] : i \in DOMAIN uniques}

FusionnesVrais(uniques) ==
    {[key |-> uniques[i].key, adherent |-> Vrais(uniques[i].adherent)] : i \in DOMAIN uniques}

\* The counts of an aggregate: status cells and diploma levels per unit and role.
Comptes(res) ==
    [cle \in DOMAIN res |-> [functions |-> res[cle].functions, diplomes |-> res[cle].diplomes]]

\* The diploma level given to each leader of each unit.
Classements(res) ==
    [cle \in DOMAIN res |->
        {<<res[cle].chefs[i].codeAdherent, res[cle].chefs[i].fonction,
           res[cle].chefs[i].diplomeJS>> : i \in DOMAIN res[cle].chefs}]

DeuxRetours == precedent.pc = "done" /\ pc = "done"

MemesComptes ==
    /\ Comptes(result) = Comptes(precedent.result)
    /\ adherents_traites = precedent.adherents_traites
    /\ adherents_ignores = precedent.adherents_ignores
    /\ Classements(result) = Classements(precedent.result)

SansConflit ==
    \A i, j \in DOMAIN Rencontres :
        (Truthy(CodeDe(Rencontres[i])) /\ CodeDe(Rencontres[i]) = CodeDe(Rencontres[j])) =>
            \A k \in DOMAIN Rencontres[i] \cap DOMAIN Rencontres[j] :
                (Truthy(Rencontres[i][k]) /\ Truthy(Rencontres[j][k])) =>
                    Rencontres[i][k] = Rencontres[j][k]

Manque(a) ==
    \E k \in {"branche", "fonction", "codeStructure"} :
        k \notin DOMAIN a \/ a[k] = None \/ a[k] = Str(<<>>)

\* The second loop is at a record.
SurUnAdherent == pc = "pass2" /\ ui <= Len(adherents_uniques)

\* C8: the step of the second pass on a record that lacks a branch, a role or a
\* unit code adds one to adherents_ignores and leaves the whole aggregate (its
\* nodes, status cells, diploma counts, leader lists, unit names) and
\* adherents_traites as they were; load_data goes on.
C8_IgnoreSeul ==
    [][(SurUnAdherent /\ Manque(AdherentCourant)) =>
          /\ adherents_ignores' = adherents_ignores + 1
          /\ result' = result
          /\ adherents_traites' = adherents_traites
          /\ pc' = "pass2" /\ ui' = ui + 1]_vars

\* C8 witness: of two records, the one that has a branch and a role but no
\* unit code was ignored, the other one counted.
C8_Temoin ==
    /\ pc = "done"
    /\ adherents_ignores = 1 /\ adherents_traites = 1
    /\ \E i \in DOMAIN adherents_uniques : adherents_uniques[i].adherent = AdhConflit.d
    /\ DOMAIN result = {<<BR, S1>>}

\* The count of a status cell, 0 when the aggregate has no such cell.
CelluleDe(res, cle, role, st) ==
    IF cle \in DOMAIN res
    THEN IF role \in DOMAIN res[cle].functions THEN res[cle].functions[role][st] ELSE 0
    ELSE 0

RolesDe(res, cle) == IF cle \in DOMAIN res THEN DOMAIN res[cle].functions ELSE {}

\* C9: the step of the second pass that counts a record having a branch, a
\* role and a unit code adds one to the cell of its (branch, unit, canonical
\* role) for PREINSCRIT when its status is PREINSCRIT and for ADHERENT in every
\* other case, and changes no other status cell.
C9_UneCellule ==
    [][(SurUnAdherent /\ ~Manque(AdherentCourant) /\ pc' = "pass2") =>
          LET a == AdherentCourant
              cible == <<<<a.branche, a.codeStructure>>,
                         normalize_fonction(a.fonction).s,
                         IF Get(a, "status", None) = Str(PREINSCRIT)
                         THEN "PREINSCRIT" ELSE "ADHERENT">>
          IN /\ cible[1] \in DOMAIN result'
             /\ \A cle \in DOMAIN result \cup DOMAIN result' :
                   \A role \in RolesDe(result, cle) \cup RolesDe(result', cle) :
                       \A st \in {"ADHERENT", "PREINSCRIT"} :
                           CelluleDe(result', cle, role, st) =
                               CelluleDe(result, cle, role, st)
                               + (IF <<cle, role, st>> = cible THEN 1 ELSE 0)]_vars

\* C9 witness: a pre-enrolled leader and a youth with an unknown status were
\* counted in the same unit.
C9_Temoin ==
    /\ pc = "done"
    /\ <<BR, S1>> \in DOMAIN result
    /\ DOMAIN result[<<BR, S1>>].functions = {CHEF_CHEFTAINE, SCOUT_MOUSSE}
    /\ result[<<BR, S1>>].functions[CHEF_CHEFTAINE] = [ADHERENT |-> 0, PREINSCRIT |-> 1]
    /\ result[<<BR, S1>>].functions[SCOUT_MOUSSE] = [ADHERENT |-> 1, PREINSCRIT |-> 0]

\* a and b are the same up to case.
MemeSansCasse(a, b) ==
    Len(a) = Len(b) /\ \A i \in 1..Len(a) : lower_char(a[i]) = lower_char(b[i])

\* s starts with p up to case.
PrefixeSansCasse(p, s) == Len(s) >= Len(p) /\ MemeSansCasse(SubSeq(s, 1, Len(p)), p)

\* C10: what normalize_fonction returned is what the taxonomy gives for its
\* argument: "Non spécifié" for an absent or empty role, "Chef/Cheftaine" for
\* the prefixes "chef " and "responsable d'unite" up to case, the three merged
\* categories for their six names up to case, and the role itself otherwise.
C10_Taxonomie ==
    fonction_ret # NonAppele =>
        LET f == fonction_arg IN
        IF f = None \/ f = Str(<<>>) THEN fonction_ret = Str(NON_SPECIFIE)
        ELSE IF PrefixeSansCasse(chef_espace, f.s) \/ PrefixeSansCasse(responsable_d_unite, f.s)
             THEN fonction_ret = Str(CHEF_CHEFTAINE)
        ELSE IF MemeSansCasse(f.s, LOUVETEAU) \/ MemeSansCasse(f.s, MOUSSAILLON)
             THEN fonction_ret = Str(LOUVETEAU_MOUSSAILLON)
        ELSE IF MemeSansCasse(f.s, MOUSSE) \/ MemeSansCasse(f.s, SCOUT)
             THEN fonction_ret = Str(SCOUT_MOUSSE)
        ELSE IF MemeSansCasse(f.s, PIONNIER) \/ MemeSansCasse(f.s, MARIN)
             THEN fonction_ret = Str(PIONNIER_MARIN)
        ELSE fonction_ret = f

\* C10 witness: "Moussaillon" was mapped to "LOUVETEAU/MOUSSAILLON".
C10_Temoin ==
    /\ fonction_arg = Str(<<"M","o","u","s","s","a","i","l","l","o","n">>)
    /\ fonction_ret = Str(LOUVETEAU_MOUSSAILLON)

-----------------------------------------------------------------------------
(* The second pass of load_data on a folder of one file holding one record *)

\* A key of a record when it is present.
Option(present, k, v) == IF present THEN (k :> v) ELSE <<>>

\* Raw roles: the four leader prefixes in several cases and with a suffix,
\* near misses, youth roles and the canonical leader role itself.
RolesBruts ==
    {<<"c","h","e","f">>, <<"C","h","e","f"," ","m","e","u","t","e">>,
     <<"C","H","E","F","T","A","I","N","E">>, <<"x"," ","c","h","e","f"," ">>,
     <<"c","h","e">>, CHEF_CHEFTAINE,
     <<"R","e","s","p","o","n","s","a","b","l","e"," ","d","'","u","n","i","t","e">>,
     <<"r","e","s","p","o","n","s","a","b","l","e">>,
     <<"r","e","s","p","o","n","s","a","b","l">>,
     <<"C","o","m","p","a","g","n","o","n">>, <<"c","o","m","p","a","g","n","e">>,
     <<"A","C","C","O","M","P","A","G","N","A","T","E","U","R"," ","s","g">>,
     <<"a","c","c","o","m","p","a","g","n","a","n","t">>,
     <<"l","o","u","v","e","t","e","a","u">>, <<"S","c","o","u","t">>}

\* Values of diplomeJS: the exact literal, and the same in another case.
DiplomesJS == {Str(SCOUT_DIR), Str(<<"s","c","o","u","t"," ","d","i","r">>)}

\* Values of qualificationDir: null, an empty object, an object without type,
\* objects whose type holds "directeur" in some case or does not, an object
\* whose type is null, and a string.
QualificationsDir ==
    {None, Dict(<<>>), Dict([date |-> Str(<<"x">>)]),
     Dict([type |-> Str(<<"D","i","r","e","c","t","e","u","r">>)]),
     Dict([type |-> Str(<<"c","o","-","D","I","R","E","C","T","E","U","R"," ","b">>)]),
     Dict([type |-> Str(<<"d","i","r","e","c","t">>)]),
     Dict([type |-> Str(<<>>)]),
     Dict([type |-> None]),
     Str(directeur)}

\* The records of the one-record folders: a member code, a branch, and every
\* combination of unit code, role, given name, diplomeJS, qualificationDir and
\* the three flags.
Adherents ==
    {[codeAdherent |-> A1, branche |-> BR]
       @@ Option(aS, "codeStructure", S1)
       @@ Option(aF, "fonction", Str(r))
       @@ Option(aP, "prenom", None)
       @@ Option(aD, "diplomeJS", dj)
       @@ Option(aQ, "qualificationDir", q)
       @@ Option(TRUE, "appro", Bool(ap))
       @@ Option(te, "tech", Bool(TRUE))
       @@ Option(af, "apf", Bool(TRUE)) :
       aS \in BOOLEAN, aF \in BOOLEAN, r \in RolesBruts, aP \in BOOLEAN,
       aD \in BOOLEAN, dj \in DiplomesJS, aQ \in BOOLEAN, q \in QualificationsDir,
       ap \in BOOLEAN, te \in BOOLEAN, af \in BOOLEAN}

\* The state DebuterDeuxiemePasse leaves after the first pass has read the
\* one file of the folder and stored its one record.
InitAdherent ==
    /\ \E a \in Adherents :
          /\ dossier = <<Fichier("objet", <<Dict(a)>>)>>
          /\ adherents_uniques = <<[key |-> a.codeAdherent, adherent |-> a]>>
    /\ ordre = Identite(1)
    /\ pc = "pass2"
    /\ fi = 2
    /\ ri = 0
    /\ fichiers_traites = 1
    /\ fichiers_erreur = <<>>
    /\ ui = 1
    /\ result = <<>>
    /\ adherents_traites = 0
    /\ adherents_ignores = 0
    /\ precedent = Aucun
    /\ fonction_arg = None
    /\ fonction_ret = NonAppele
    /\ PageInactive

NextAdherent ==
    \/ CompterAdherent
    \/ IgnorerAdherent
    \/ LeverException
    \/ Retourner

SpecAdherent == InitAdherent /\ [][NextAdherent]_vars

-----------------------------------------------------------------------------
(* Leaders and their diploma level *)

\* The number of leader records of a unit, 0 when the aggregate has no such unit.
NbChefs(res, cle) == IF cle \in DOMAIN res THEN Len(res[cle].chefs) ELSE 0

\* The raw role starts, up to case, with one of the four leader prefixes.
PrefixeDeChef(f) ==
    \/ PrefixeSansCasse(<<"c","h","e","f">>, f)
    \/ PrefixeSansCasse(<<"r","e","s","p","o","n","s","a","b","l","e">>, f)
    \/ PrefixeSansCasse(<<"c","o","m","p","a","g","n","o","n">>, f)
    \/ PrefixeSansCasse(<<"a","c","c","o","m","p","a","g","n","a","t","e","u","r">>, f)

\* C11: the step of the second pass that counts a record appends one leader
\* record to the record's unit when the raw role starts, up to case, with
\* "chef", "responsable", "compagnon" or "accompagnateur", and none otherwise;
\* in particular it appends one, carrying the record's member code, whenever
\* the role normalizes to "Chef/Cheftaine".
C11_ChefSurRoleBrut ==
    [][(SurUnAdherent /\ ~Manque(AdherentCourant) /\ pc' = "pass2") =>
          LET a == AdherentCourant
              cle == <<a.branche, a.codeStructure>>
              n == NbChefs(result', cle)
          IN /\ n = NbChefs(result, cle) + (IF PrefixeDeChef(a.fonction.s) THEN 1 ELSE 0)
             /\ \A c \in DOMAIN result \cup DOMAIN result' :
                   c # cle => NbChefs(result', c) = NbChefs(result, c)
             /\ normalize_fonction(a.fonction) = Str(CHEF_CHEFTAINE) =>
                   /\ n = NbChefs(result, cle) + 1
                   /\ result'[cle].chefs[n].fonction = CHEF_CHEFTAINE
                   /\ result'[cle].chefs[n].codeAdherent = a.codeAdherent]_vars

\* C11 witness: a "CHEFTAINE", whose canonical role is not "Chef/Cheftaine",
\* got a leader record.
C11_Temoin ==
    /\ pc = "done"
    /\ Len(adherents_uniques) = 1
    /\ Get(adherents_uniques[1].adherent, "fonction", None)
          = Str(<<"C","H","E","F","T","A","I","N","E">>)
    /\ <<BR, S1>> \in DOMAIN result
    /\ Len(result[<<BR, S1>>].chefs) = 1
    /\ result[<<BR, S1>>].chefs[1].fonction = <<"C","H","E","F","T","A","I","N","E">>

\* s holds p up to case.
ContientSansCasse(s, p) ==
    \E i \in 0..(Len(s) - Len(p)) : MemeSansCasse(SubSeq(s, i + 1, i + Len(p)), p)

\* The director test of the chain passes: diplomeJS is "Scout Dir", or
\* qualificationDir is an object whose type holds "directeur" up to case.
TestDirecteur(a) ==
    \/ ("diplomeJS" \in DOMAIN a /\ a.diplomeJS = Str(SCOUT_DIR))
    \/ /\ "qualificationDir" \in DOMAIN a
       /\ a.qualificationDir.t = "dict"
       /\ "type" \in DOMAIN a.qualificationDir.d
       /\ a.qualificationDir.d.type.t = "str"
       /\ ContientSansCasse(a.qualificationDir.d.type.s, directeur)

Drapeau(a, k) == k \in DOMAIN a /\ a[k] = Bool(TRUE)

\* The level the priority chain Director > Appro > Tech > APF > none gives.
NiveauAttendu(a) ==
    IF TestDirecteur(a) THEN "Directeur"
    ELSE IF Drapeau(a, "appro") THEN "Appro"
    ELSE IF Drapeau(a, "tech") THEN "Tech"
    ELSE IF Drapeau(a, "apf") THEN "APF"
    ELSE "-"

\* The count of a diploma level for a role of a unit, 0 when absent.
NbDiplomes(res, cle, role, niveau) ==
    IF cle \in DOMAIN res
    THEN IF role \in DOMAIN res[cle].diplomes
         THEN IF niveau \in DOMAIN res[cle].diplomes[role]
              THEN res[cle].diplomes[role][niveau] ELSE 0
         ELSE 0
    ELSE 0

\* C12: the leader record a counting step appends carries the level of the
\* first test that passes in the order Director, Appro, Tech, APF, and "-"
\* when none passes, whatever the tests after it would give; the count of that
\* level for the leader's unit and canonical role grows by one.
C12_ChaineDePriorite ==
    [][(SurUnAdherent /\ ~Manque(AdherentCourant) /\ pc' = "pass2"
        /\ PrefixeDeChef(AdherentCourant.fonction.s)) =>
          LET a == AdherentCourant
              cle == <<a.branche, a.codeStructure>>
              role == normalize_fonction(a.fonction).s
              niveau == NiveauAttendu(a)
          IN /\ NbChefs(result', cle) = NbChefs(result, cle) + 1
             /\ result'[cle].chefs[NbChefs(result', cle)].diplomeJS = niveau
             /\ NbDiplomes(result', cle, role, niveau)
                   = NbDiplomes(result, cle, role, niveau) + 1]_vars

\* C12 witness: a leader with diplomeJS "Scout Dir" and the appro, tech and
\* apf flags set was classified Directeur.
C12_Temoin ==
    /\ pc = "done"
    /\ Len(adherents_uniques) = 1
    /\ LET a == adherents_uniques[1].adherent
       IN /\ Get(a, "diplomeJS", None) = Str(SCOUT_DIR)
          /\ Drapeau(a, "appro") /\ Drapeau(a, "tech") /\ Drapeau(a, "apf")
    /\ <<BR, S1>> \in DOMAIN result
    /\ Len(result[<<BR, S1>>].chefs) = 1
    /\ result[<<BR, S1>>].chefs[1].diplomeJS = "Directeur"

Niveaux == {"Directeur", "Appro", "Tech", "APF", "-"}

RECURSIVE SommeSur(_, _)
SommeSur(f, S) ==
    IF S = {} THEN 0
    ELSE LET x == CHOOSE y \in S : TRUE IN f[x] + SommeSur(f, S \ {x})

\* The diploma-level counts of a unit summed over its roles and levels.
TotalDiplomes(n) ==
    SommeSur([r \in DOMAIN n.diplomes |->
                 SommeSur(n.diplomes[r], DOMAIN n.diplomes[r])],
             DOMAIN n.diplomes)

\* The given name and the family name are strings or absent.
NomLisible(a) ==
    /\ "prenom" \in DOMAIN a => a.prenom.t = "str"
    /\ "nom" \in DOMAIN a => a.nom.t = "str"

\* C13: the step of the second pass on a leader that has a branch, a unit code
\* and a readable name gives it a leader record carrying one of the five
\* levels, and leaves in every unit as many counted diploma levels as leader
\* records.
C13_ClassementTotal ==
    [][(SurUnAdherent /\ ~Manque(AdherentCourant)
        /\ PrefixeDeChef(AdherentCourant.fonction.s) /\ NomLisible(AdherentCourant)) =>
          LET a == AdherentCourant
              cle == <<a.branche, a.codeStructure>>
          IN /\ pc' = "pass2"
             /\ NbChefs(result', cle) = NbChefs(result, cle) + 1
             /\ result'[cle].chefs[NbChefs(result', cle)].diplomeJS \in Niveaux
             /\ \A c \in DOMAIN result' :
                   TotalDiplomes(result'[c]) = Len(result'[c].chefs)]_vars

-----------------------------------------------------------------------------
(* The camp quotas of src/page_statistiques.py *)

\* A faulty variant of the table: the third tier starts one youth later.
paliers_avec_trou ==
    <<[mini |-> 7,  maxi |-> 12, total |-> 2, dir |-> 1, qual |-> 1],
      [mini |-> 13, maxi |-> 24, total |-> 3, dir |-> 1, qual |-> 1],
      [mini |-> 26, maxi |-> 36, total |-> 4, dir |-> 1, qual |-> 2],
      [mini |-> 37, maxi |-> 48, total |-> 5, dir |-> 1, qual |-> 2],
      [mini |-> 49, maxi |-> 60, total |-> 6, dir |-> 1, qual |-> 3],
      [mini |-> 61, maxi |-> 72, total |-> 7, dir |-> 1, qual |-> 3],
      [mini |-> 73, maxi |-> 84, total |-> 8, dir |-> 1, qual |-> 4]>>

\* Lines 195-203: the tiers in the order of the dict.
paliers ==
    <<[mini |-> 7,  maxi |-> 12, total |-> 2, dir |-> 1, qual |-> 1],
      [mini |-> 13, maxi |-> 24, total |-> 3, dir |-> 1, qual |-> 1],
      [mini |-> 25, maxi |-> 36, total |-> 4, dir |-> 1, qual |-> 2],
      [mini |-> 37, maxi |-> 48, total |-> 5, dir |-> 1, qual |-> 2],
      [mini |-> 49, maxi |-> 60, total |-> 6, dir |-> 1, qual |-> 3],
      [mini |-> 61, maxi |-> 72, total |-> 7, dir |-> 1, qual |-> 3],
      [mini |-> 73, maxi |-> 84, total |-> 8, dir |-> 1, qual |-> 4]>>

\* A faulty variant: a headcount beyond the table takes the last tier.
config_de_dernier_palier(nb_jeunes) ==
    LET I == {i \in DOMAIN paliers : paliers[i].mini <= nb_jeunes /\ nb_jeunes <= paliers[i].maxi}
    IN IF I = {} THEN paliers[Len(paliers)] ELSE paliers[Min(I)]

\* Line 205: the first tier whose range holds nb_jeunes, None when there is none.
config_de(nb_jeunes) ==
    LET I == {i \in DOMAIN paliers : paliers[i].mini <= nb_jeunes /\ nb_jeunes <= paliers[i].maxi}
    IN IF I = {} THEN None ELSE paliers[Min(I)]

DIRECTEUR == "Directeur"
QUALIFIE == "Qualifié (BAFA/Appro/Tech)"
ENCADRANT == "Encadrant supplémentaire"
HORS_TABLEAU == "Effectif hors tableau (>84)"
MANQUE_ENCADREMENT == "Manque d'encadrement"

\* What verifier_quotas_camp_sgdf returns: (compliant, reason, shortfalls).
Retour(camp_ok, msg, manquants) == [camp_ok |-> camp_ok, msg |-> msg, manquants |-> manquants]

\* A faulty variant: directors do not count toward the qualified quota.
manquants_de_sans_directeurs(config, nb_dir, nb_qual, nb_stag, nb_autres) ==
    LET m1 == IF nb_dir < config.dir THEN (DIRECTEUR :> (config.dir - nb_dir)) ELSE <<>>
        m2 == IF nb_qual < config.qual
              THEN (QUALIFIE :> (config.qual - nb_qual)) @@ m1
              ELSE m1
        total_actuel == nb_dir + nb_qual + nb_stag + nb_autres
        diff_total == config.total - total_actuel
        besoins_fixes == SommeSur(m2, DOMAIN m2)
    IN IF total_actuel < config.total /\ diff_total > besoins_fixes
       THEN (ENCADRANT :> (diff_total - besoins_fixes)) @@ m2
       ELSE m2

\* A faulty variant: the whole total shortfall is recorded, the adults already
\* flagged counted twice.
manquants_de_double_compte(config, nb_dir, nb_qual, nb_stag, nb_autres) ==
    LET m1 == IF nb_dir < config.dir THEN (DIRECTEUR :> (config.dir - nb_dir)) ELSE <<>>
        total_diplomes_disponibles == nb_dir + nb_qual
        m2 == IF total_diplomes_disponibles < config.qual
              THEN (QUALIFIE :> (config.qual - total_diplomes_disponibles)) @@ m1
              ELSE m1
        total_actuel == nb_dir + nb_qual + nb_stag + nb_autres
        diff_total == config.total - total_actuel
    IN IF total_actuel < config.total
       THEN (ENCADRANT :> diff_total) @@ m2
       ELSE m2

\* A faulty variant: one missing qualified adult is reported whatever the gap.
manquants_de_un_qualifie(config, nb_dir, nb_qual, nb_stag, nb_autres) ==
    LET m1 == IF nb_dir < config.dir THEN (DIRECTEUR :> (config.dir - nb_dir)) ELSE <<>>
        total_diplomes_disponibles == nb_dir + nb_qual
        m2 == IF total_diplomes_disponibles < config.qual
              THEN (QUALIFIE :> 1) @@ m1
              ELSE m1
        total_actuel == nb_dir + nb_qual + nb_stag + nb_autres
        diff_total == config.total - total_actuel
        besoins_fixes == SommeSur(m2, DOMAIN m2)
    IN IF total_actuel < config.total /\ diff_total > besoins_fixes
       THEN (ENCADRANT :> (diff_total - besoins_fixes)) @@ m2
       ELSE m2

\* Lines 210-230: the shortfall map of a headcount that has a tier.
manquants_de(config, nb_dir, nb_qual, nb_stag, nb_autres) ==
    LET m1 == IF nb_dir < config.dir THEN (DIRECTEUR :> (config.dir - nb_dir)) ELSE <<>>
        total_diplomes_disponibles == nb_dir + nb_qual
        m2 == IF total_diplomes_disponibles < config.qual
              THEN (QUALIFIE :> (config.qual - total_diplomes_disponibles)) @@ m1
              ELSE m1
        total_actuel == nb_dir + nb_qual + nb_stag + nb_autres
        diff_total == config.total - total_actuel
        besoins_fixes == SommeSur(m2, DOMAIN m2)
    IN IF total_actuel < config.total /\ diff_total > besoins_fixes
       THEN (ENCADRANT :> (diff_total - besoins_fixes)) @@ m2
       ELSE m2

\* A faulty variant: a missing extra adult alone does not make the camp
\* non-compliant.
verifier_quotas_encadrant_tolere(nb_jeunes, nb_dir, nb_qual, nb_stag, nb_autres) ==
    IF nb_jeunes < 7 THEN Retour(TRUE, "", <<>>)
    ELSE LET config == config_de(nb_jeunes) IN
         IF config = None THEN Retour(FALSE, HORS_TABLEAU, <<>>)
         ELSE LET manquants == manquants_de(config, nb_dir, nb_qual, nb_stag, nb_autres)
              IN Retour(DOMAIN manquants \subseteq {ENCADRANT},
                        IF DOMAIN manquants = {} THEN "" ELSE MANQUE_ENCADREMENT,
                        manquants)

\* A faulty variant: no early return for fewer than 7 youths.
verifier_quotas_sans_micro_camp(nb_jeunes, nb_dir, nb_qual, nb_stag, nb_autres) ==
    LET config == config_de(nb_jeunes) IN
    IF config = None THEN Retour(FALSE, HORS_TABLEAU, <<>>)
    ELSE LET manquants == manquants_de(config, nb_dir, nb_qual, nb_stag, nb_autres)
         IN Retour(DOMAIN manquants = {},
                   IF DOMAIN manquants = {} THEN "" ELSE MANQUE_ENCADREMENT,
                   manquants)

\* Lines 186-230.
verifier_quotas_camp_sgdf(nb_jeunes, nb_dir, nb_qual, nb_stag, nb_autres) ==
    IF nb_jeunes < 7 THEN Retour(TRUE, "", <<>>)
    ELSE LET config == config_de(nb_jeunes) IN
         IF config = None THEN Retour(FALSE, HORS_TABLEAU, <<>>)
         ELSE LET manquants == manquants_de(config, nb_dir, nb_qual, nb_stag, nb_autres)
              IN Retour(DOMAIN manquants = {},
                        IF DOMAIN manquants = {} THEN "" ELSE MANQUE_ENCADREMENT,
                        manquants)

-----------------------------------------------------------------------------
(* highlight_row of src/page_statistiques.py, on a row of the pivot table *)

Chiffres == <<"0", "1", "2", "3", "4", "5", "6", "7", "8", "9">>

\* str(n) of a natural number, as render_branche_content writes the headcounts.
RECURSIVE str_int(_)
str_int(n) ==
    IF n < 10 THEN <<Chiffres[n + 1]>>
    ELSE str_int(n \div 10) \o <<Chiffres[(n % 10) + 1]>>

RECURSIVE valeur_decimale(_)
valeur_decimale(s) ==
    IF s = <<>> THEN 0
    ELSE 10 * valeur_decimale(SubSeq(s, 1, Len(s) - 1))
         + (CHOOSE d \in 0..9 : Chiffres[d + 1] = s[Len(s)])

\* int(float(val)): the number of an int or of a string of digits; a string
\* that is no number raises ValueError and None raises TypeError (ok FALSE).
int_float(val) ==
    IF val.t = "num" THEN [ok |-> TRUE, n |-> val.n]
    ELSE IF val.t = "str" /\ val.s # <<>>
            /\ \A i \in DOMAIN val.s : \E d \in DOMAIN Chiffres : Chiffres[d] = val.s[i]
         THEN [ok |-> TRUE, n |-> valeur_decimale(val.s)]
         ELSE [ok |-> FALSE, n |-> 0]

\* Lines 571-574.
FONCTIONS_JEUNES ==
    {"SCOUT/MOUSSE", "PIONNIER/MARIN", "LOUVETEAU/MOUSSAILLON",
     "JEANNETTE", "GUIDE", "CARAVELLE"}

COL_DIRECTEUR == "Directeur (Qualifié)"
COL_APPRO == "Appro (Qualifié)"
COL_TECH == "Tech (Qualifié)"
COL_APF == "APF (Stagiaire)"
COL_SANS == "Sans diplôme (Non qualifié)"
COULEUR == "background-color: #ffe6cc; color: black;"

\* Lines 576-583: the youth headcount of the row; a cell that is no number is
\* skipped.
nb_jeunes_de(r) ==
    SommeSur([f \in FONCTIONS_JEUNES |->
                 LET v == int_float(Get(r, f, Num(0))) IN IF v.ok THEN v.n ELSE 0],
             FONCTIONS_JEUNES)

\* [x] * len(row)
Styles(r, x) == [i \in 1..Cardinality(DOMAIN r) |-> x]

\* What highlight_row leaves: its return value and the side-channel dict.
Rendu(styles, alerts, details) == [styles |-> styles, alerts |-> alerts, details |-> details]

\* The name of the row (its index in the pivot table).
NOM_LIGNE == "U"

\* A faulty variant: the alert is raised only when the shortfall map names a
\* role, so a unit beyond the table gets the 35-youths alert instead.
highlight_row_si_manquants(r, name, details) ==
    LET nb_jeunes == nb_jeunes_de(r)
        dir == int_float(Get(r, COL_DIRECTEUR, Num(0)))
        appro == int_float(Get(r, COL_APPRO, Num(0)))
        tech == int_float(Get(r, COL_TECH, Num(0)))
        stag == int_float(Get(r, COL_APF, Num(0)))
        autres == int_float(Get(r, COL_SANS, Num(0)))
        q == verifier_quotas_camp_sgdf(nb_jeunes, dir.n, appro.n + tech.n, stag.n, autres.n)
    IN IF nb_jeunes < 7 THEN Rendu(Styles(r, ""), <<>>, details)
       ELSE IF ~(dir.ok /\ appro.ok /\ tech.ok /\ stag.ok /\ autres.ok)
            THEN Rendu(Styles(r, ""), <<>>, details)
       ELSE IF ~q.camp_ok /\ DOMAIN q.manquants # {}
            THEN Rendu(Styles(r, COULEUR), <<"quota_camp_insuffisant">>,
                       (name :> q.manquants) @@ details)
       ELSE IF nb_jeunes > 35 THEN Rendu(Styles(r, COULEUR), <<"plus_35_jeunes">>, details)
       ELSE Rendu(Styles(r, ""), <<>>, details)

\* A faulty variant: the shortfall map of a unit that lacks a director is not
\* stored.
highlight_row_sans_details(r, name, details) ==
    LET nb_jeunes == nb_jeunes_de(r)
        dir == int_float(Get(r, COL_DIRECTEUR, Num(0)))
        appro == int_float(Get(r, COL_APPRO, Num(0)))
        tech == int_float(Get(r, COL_TECH, Num(0)))
        stag == int_float(Get(r, COL_APF, Num(0)))
        autres == int_float(Get(r, COL_SANS, Num(0)))
        q == verifier_quotas_camp_sgdf(nb_jeunes, dir.n, appro.n + tech.n, stag.n, autres.n)
    IN IF nb_jeunes < 7 THEN Rendu(Styles(r, ""), <<>>, details)
       ELSE IF ~(dir.ok /\ appro.ok /\ tech.ok /\ stag.ok /\ autres.ok)
            THEN Rendu(Styles(r, ""), <<>>, details)
       ELSE IF ~q.camp_ok
            THEN Rendu(Styles(r, COULEUR), <<"quota_camp_insuffisant">>,
                       IF DIRECTEUR \in DOMAIN q.manquants THEN details
                       ELSE (name :> q.manquants) @@ details)
       ELSE IF nb_jeunes > 35 THEN Rendu(Styles(r, COULEUR), <<"plus_35_jeunes">>, details)
       ELSE Rendu(Styles(r, ""), <<>>, details)

\* A faulty variant: a row that cannot be read empties the side-channel dict.
highlight_row_vide_details(r, name, details) ==
    LET nb_jeunes == nb_jeunes_de(r)
        dir == int_float(Get(r, COL_DIRECTEUR, Num(0)))
        appro == int_float(Get(r, COL_APPRO, Num(0)))
        tech == int_float(Get(r, COL_TECH, Num(0)))
        stag == int_float(Get(r, COL_APF, Num(0)))
        autres == int_float(Get(r, COL_SANS, Num(0)))
        q == verifier_quotas_camp_sgdf(nb_jeunes, dir.n, appro.n + tech.n, stag.n, autres.n)
    IN IF nb_jeunes < 7 THEN Rendu(Styles(r, ""), <<>>, details)
       ELSE IF ~(dir.ok /\ appro.ok /\ tech.ok /\ stag.ok /\ autres.ok)
            THEN Rendu(Styles(r, ""), <<>>, <<>>)
       ELSE IF ~q.camp_ok
            THEN Rendu(Styles(r, COULEUR), <<"quota_camp_insuffisant">>,
                       (name :> q.manquants) @@ details)
       ELSE IF nb_jeunes > 35 THEN Rendu(Styles(r, COULEUR), <<"plus_35_jeunes">>, details)
       ELSE Rendu(Styles(r, ""), <<>>, details)

\* Lines 559-620; name is row.name, the index of the row in the table.
highlight_row(r, name, details) ==
    LET nb_jeunes == nb_jeunes_de(r)
        dir == int_float(Get(r, COL_DIRECTEUR, Num(0)))
        appro == int_float(Get(r, COL_APPRO, Num(0)))
        tech == int_float(Get(r, COL_TECH, Num(0)))
        stag == int_float(Get(r, COL_APF, Num(0)))
        autres == int_float(Get(r, COL_SANS, Num(0)))
        q == verifier_quotas_camp_sgdf(nb_jeunes, dir.n, appro.n + tech.n, stag.n, autres.n)
    IN IF nb_jeunes < 7 THEN Rendu(Styles(r, ""), <<>>, details)
       ELSE IF ~(dir.ok /\ appro.ok /\ tech.ok /\ stag.ok /\ autres.ok)
            THEN Rendu(Styles(r, ""), <<>>, details)
       ELSE IF ~q.camp_ok
            THEN Rendu(Styles(r, COULEUR), <<"quota_camp_insuffisant">>,
                       (name :> q.manquants) @@ details)
       ELSE IF nb_jeunes > 35
            THEN Rendu(Styles(r, COULEUR), <<"plus_35_jeunes">>, details)
       ELSE Rendu(Styles(r, ""), <<>>, details)

\* Largest headcount of the "SCOUT/MOUSSE" column, and largest numbers of
\* leaders of each diploma column, of the rows explored.
MaxJeunes == 86
MaxDirecteurs == 2
MaxAppro == 2
MaxTech == 1
MaxAPF == 1
MaxSansDiplome == 2

\* Cells of the "LOUVETEAU/MOUSSAILLON" column: a headcount, or a cell that is
\* no number.
AutresJeunes == {Str(<<"3">>), Str(<<"x">>)}

\* Cells of the directors' column: a count, or a cell that is no number.
CellulesDirecteur == {Num(d) : d \in 0..MaxDirecteurs} \cup {Str(<<"x">>)}

\* The rows: role columns hold str(total) (lines 266-267), diploma columns
\* hold ints (lines 277-283); the leaders' own column is no youth column, the
\* second youth column may be absent or unreadable, and the directors' cell
\* may be unreadable.
Lignes ==
    {("SCOUT/MOUSSE" :> Str(str_int(j)))
       @@ ("Chef/Cheftaine" :> Str(str_int(int_float(d).n + a + t + s + n)))
       @@ Option(aL, "LOUVETEAU/MOUSSAILLON", l)
       @@ (COL_DIRECTEUR :> d)
       @@ (COL_APPRO :> Num(a)) @@ (COL_TECH :> Num(t))
       @@ (COL_APF :> Num(s)) @@ (COL_SANS :> Num(n)) :
       j \in 0..MaxJeunes, aL \in BOOLEAN, l \in AutresJeunes,
       d \in CellulesDirecteur, a \in 0..MaxAppro,
       t \in 0..MaxTech, s \in 0..MaxAPF, n \in 0..MaxSansDiplome}

\* The arguments of line 597 for a row, an unreadable cell read as 0.
Effectifs(r) ==
    [nb_jeunes |-> nb_jeunes_de(r),
     nb_dir |-> int_float(r[COL_DIRECTEUR]).n,
     nb_qual |-> int_float(r[COL_APPRO]).n + int_float(r[COL_TECH]).n,
     nb_stag |-> int_float(r[COL_APF]).n,
     nb_autres |-> int_float(r[COL_SANS]).n]

\* load_data is not running.
HorsChargement ==
    /\ Debut(<<>>, <<>>, Aucun)
    /\ fonction_arg = None
    /\ fonction_ret = NonAppele

InitQuotas ==
    /\ HorsChargement
    /\ row \in Lignes
    /\ quota_arg = Effectifs(row)
    /\ quota_ret = NonAppele
    /\ details_alertes_camp = <<>>
    /\ highlight_ret = NonAppele
    /\ ComplementInactif /\ RenduInactif /\ SessionInactive

ChargementInchange ==
    UNCHANGED <<dossier, ordre, pc, fi, ri, adherents_uniques, fichiers_traites,
                fichiers_erreur, ui, result, adherents_traites, adherents_ignores,
                precedent, fonction_arg, fonction_ret>>

\* One call of verifier_quotas_camp_sgdf.
AppelerVerifier ==
    /\ quota_arg # <<>>
    /\ quota_ret = NonAppele
    /\ quota_ret' = verifier_quotas_camp_sgdf(quota_arg.nb_jeunes, quota_arg.nb_dir,
                                              quota_arg.nb_qual, quota_arg.nb_stag,
                                              quota_arg.nb_autres)
    /\ UNCHANGED <<row, quota_arg, details_alertes_camp, highlight_ret>>
    /\ ChargementInchange
    /\ ComplementInchange /\ RenduInchange /\ SessionInchangee

\* Line 308: the styler calls highlight_row on the row.
AppelerHighlight ==
    /\ row # <<>>
    /\ highlight_ret = NonAppele
    /\ LET rendu == highlight_row(row, NOM_LIGNE, details_alertes_camp)
       IN /\ highlight_ret' = [styles |-> rendu.styles, alerts |-> rendu.alerts]
          /\ details_alertes_camp' = rendu.details
    /\ UNCHANGED <<row, quota_arg, quota_ret>>
    /\ ChargementInchange
    /\ ComplementInchange /\ RenduInchange /\ SessionInchangee

NextQuotas == AppelerVerifier \/ AppelerHighlight

SpecQuotas == InitQuotas /\ [][NextQuotas]_vars

-----------------------------------------------------------------------------
(* The quota table as the regulation states it *)

VerifierAppele == quota_ret # NonAppele
HighlightAppele == highlight_ret # NonAppele

\* The headcount has a tier.
DansTableau(N) == 7 <= N /\ N <= 84

\* Tiers are 12 youths wide from 13 on, the first one starting at 7.
RangDuPalier(N) == (N - 1) \div 12

TotalRequis(N) == RangDuPalier(N) + 2
QualifiesRequis(N) == (RangDuPalier(N) \div 2) + 1

Max0(x) == IF x > 0 THEN x ELSE 0

ManqueDirecteur(q) == Max0(1 - q.nb_dir)
ManqueQualifie(q) == Max0(QualifiesRequis(q.nb_jeunes) - (q.nb_dir + q.nb_qual))
ManqueTotal(q) ==
    Max0(TotalRequis(q.nb_jeunes) - (q.nb_dir + q.nb_qual + q.nb_stag + q.nb_autres))

\* The map holds x under k when x is positive, and has no key k otherwise.
InscritSiPositif(m, k, x) ==
    IF x > 0 THEN k \in DOMAIN m /\ m[k] = x ELSE k \notin DOMAIN m

\* C14: for a headcount from 7 to 84, the map returned holds under
\* "Directeur" the number of directors missing for one, and under
\* "Qualifié (BAFA/Appro/Tech)" the number of qualified adults missing for the
\* tier's quota with the directors counted as qualified; each key is present
\* only when its number is positive.
C14_ManqueDirecteurEtQualifie ==
    (VerifierAppele /\ DansTableau(quota_arg.nb_jeunes)) =>
        /\ InscritSiPositif(quota_ret.manquants, DIRECTEUR, ManqueDirecteur(quota_arg))
        /\ InscritSiPositif(quota_ret.manquants, QUALIFIE, ManqueQualifie(quota_arg))

\* C14 witness: 30 youths with one director and no other qualified adult: one
\* qualified adult is missing, not two, and no director.
C14_Temoin ==
    /\ VerifierAppele
    /\ quota_arg.nb_jeunes = 30 /\ quota_arg.nb_dir = 1 /\ quota_arg.nb_qual = 0
    /\ DIRECTEUR \notin DOMAIN quota_ret.manquants
    /\ QUALIFIE \in DOMAIN quota_ret.manquants
    /\ quota_ret.manquants[QUALIFIE] = 1

\* C15: for a headcount from 7 to 84, "Encadrant supplémentaire" is in the
\* map returned exactly when the number of adults missing for the tier's total
\* exceeds the directors and qualified adults already recorded as missing, and
\* it holds that excess.
C15_EncadrantSupplementaire ==
    (VerifierAppele /\ DansTableau(quota_arg.nb_jeunes)) =>
        InscritSiPositif(quota_ret.manquants, ENCADRANT,
                         ManqueTotal(quota_arg)
                         - (ManqueDirecteur(quota_arg) + ManqueQualifie(quota_arg)))

\* C15 witness: 20 youths, one director and nobody else: the map is
\* {"Encadrant supplémentaire": 2} and the camp is not compliant.
C15_Temoin ==
    /\ VerifierAppele
    /\ quota_arg = [nb_jeunes |-> 20, nb_dir |-> 1, nb_qual |-> 0, nb_stag |-> 0,
                    nb_autres |-> 0]
    /\ quota_ret.manquants = (ENCADRANT :> 2)
    /\ ~quota_ret.camp_ok

\* C16: for a headcount from 7 to 84 the answer is compliant exactly when the
\* map returned is empty, and every value of a returned map is a positive
\* integer.
C16_ConformeSiVide ==
    VerifierAppele =>
        /\ DansTableau(quota_arg.nb_jeunes) =>
              (quota_ret.camp_ok <=> DOMAIN quota_ret.manquants = {})
        /\ \A k \in DOMAIN quota_ret.manquants :
              quota_ret.manquants[k] \in Nat \ {0}

\* C16 witness: 84 youths with two directors, three other qualified adults and
\* three more adults: nothing is missing and the camp is compliant.
C16_Temoin ==
    /\ VerifierAppele
    /\ quota_arg.nb_jeunes = 84 /\ quota_arg.nb_dir = 2 /\ quota_arg.nb_qual = 3
    /\ quota_arg.nb_stag + quota_arg.nb_autres = 3
    /\ quota_ret.camp_ok
    /\ quota_ret.manquants = <<>>

\* C17: for a headcount above 84 the answer is non-compliant, with the
\* out-of-table reason and an empty map, whatever the adults.
C17_HorsTableau ==
    (VerifierAppele /\ quota_arg.nb_jeunes > 84) =>
        quota_ret = Retour(FALSE, HORS_TABLEAU, <<>>)

\* C17 witness: 85 youths and every adult the rows can hold: non-compliant.
C17_Temoin ==
    /\ VerifierAppele
    /\ quota_arg.nb_jeunes = 85
    /\ quota_arg.nb_dir = MaxDirecteurs /\ quota_arg.nb_qual = MaxAppro + MaxTech
    /\ quota_arg.nb_stag = MaxAPF /\ quota_arg.nb_autres = MaxSansDiplome
    /\ ~quota_ret.camp_ok
    /\ quota_ret.msg = HORS_TABLEAU

\* C18: for a headcount under 7 the quota check answers compliant with an
\* empty reason and an empty map whatever the adults, and highlight_row gives
\* the row no alert, no colour and no entry in the details.
C18_MicroCamp ==
    quota_arg.nb_jeunes < 7 =>
        /\ VerifierAppele => quota_ret = Retour(TRUE, "", <<>>)
        /\ HighlightAppele =>
              /\ highlight_ret.alerts = <<>>
              /\ \A i \in DOMAIN highlight_ret.styles : highlight_ret.styles[i] = ""
              /\ details_alertes_camp = <<>>

\* C18 witness: 6 youths in two columns and no adult at all: compliant, and
\* no alert.
C18_Temoin ==
    /\ VerifierAppele /\ HighlightAppele
    /\ quota_arg = [nb_jeunes |-> 6, nb_dir |-> 0, nb_qual |-> 0, nb_stag |-> 0,
                    nb_autres |-> 0]
    /\ row["SCOUT/MOUSSE"] = Str(<<"3">>)
    /\ quota_ret.camp_ok
    /\ highlight_ret.alerts = <<>>

\* The seven ranges of the regulation.
Tranches ==
    <<<<7, 12>>, <<13, 24>>, <<25, 36>>, <<37, 48>>, <<49, 60>>, <<61, 72>>, <<73, 84>>>>

TranchesDe(N) == {k \in DOMAIN Tranches : Tranches[k][1] <= N /\ N <= Tranches[k][2]}

\* The tiers of the table whose range holds N.
PaliersDe(N) == {i \in DOMAIN paliers : paliers[i].mini <= N /\ N <= paliers[i].maxi}

\* C19: a headcount from 7 to 84 is in exactly one tier of the table, whose
\* range is the one of the seven ranges that holds it and which requires one
\* director; from 7 on, the lookup finds no tier, and the check answers with
\* the out-of-table reason, exactly for the headcounts above 84.
C19_PaliersPartition ==
    LET N == quota_arg.nb_jeunes IN
    /\ DansTableau(N) =>
          /\ Cardinality(TranchesDe(N)) = 1
          /\ Cardinality(PaliersDe(N)) = 1
          /\ \A k \in TranchesDe(N) :
                /\ config_de(N).mini = Tranches[k][1]
                /\ config_de(N).maxi = Tranches[k][2]
          /\ config_de(N).dir = 1
          /\ (VerifierAppele /\ quota_arg.nb_dir = 0) =>
                (DIRECTEUR \in DOMAIN quota_ret.manquants
                 /\ quota_ret.manquants[DIRECTEUR] = 1)
    /\ N >= 7 =>
          /\ config_de(N) = None <=> N > 84
          /\ VerifierAppele => (quota_ret.msg = HORS_TABLEAU <=> N > 84)

\* C19 witness: 25 youths, the first headcount of the third tier, without a
\* director: one director is missing and the reason is not the out-of-table
\* one.
C19_Temoin ==
    /\ VerifierAppele
    /\ quota_arg.nb_jeunes = 25 /\ quota_arg.nb_dir = 0
    /\ quota_ret.msg = MANQUE_ENCADREMENT
    /\ DIRECTEUR \in DOMAIN quota_ret.manquants

\* The cells of the diploma columns are numbers.
LigneLisible(r) ==
    \A c \in {COL_DIRECTEUR, COL_APPRO, COL_TECH, COL_APF, COL_SANS} :
        c \in DOMAIN r => int_float(r[c]).ok

\* C20: the alerts highlight_row returns for a readable row of more than 35
\* youths hold plus_35_jeunes, whether or not the row also has the
\* insufficient-staffing alert.
C20_AlertePlus35 ==
    (HighlightAppele /\ LigneLisible(row) /\ nb_jeunes_de(row) > 35) =>
        \E i \in DOMAIN highlight_ret.alerts : highlight_ret.alerts[i] = "plus_35_jeunes"


\* The alerts of the last call of highlight_row.
Alertes == {highlight_ret.alerts[i] : i \in DOMAIN highlight_ret.alerts}

\* C21: for a readable row, highlight_row returns the alert
\* quota_camp_insuffisant exactly when verifier_quotas_camp_sgdf, called on
\* the counts of that row, answers that the camp is not compliant.
C21_AlerteSiNonConforme ==
    (VerifierAppele /\ HighlightAppele /\ LigneLisible(row)) =>
        ("quota_camp_insuffisant" \in Alertes <=> ~quota_ret.camp_ok)

\* C21 witness: a fully staffed unit of more than 84 youths; the engine
\* refuses it with an empty shortfall map and the row has the alert.
C21_Temoin ==
    /\ VerifierAppele /\ HighlightAppele /\ LigneLisible(row)
    /\ nb_jeunes_de(row) > 84
    /\ ~quota_ret.camp_ok /\ DOMAIN quota_ret.manquants = {}
    /\ "quota_camp_insuffisant" \in Alertes


\* The leaders of a row: the sum of its diploma columns.
NbChefsDeLigne(r) ==
    int_float(Get(r, COL_DIRECTEUR, Num(0))).n + int_float(Get(r, COL_APPRO, Num(0))).n
    + int_float(Get(r, COL_TECH, Num(0))).n + int_float(Get(r, COL_APF, Num(0))).n
    + int_float(Get(r, COL_SANS, Num(0))).n

\* C22: a readable row with leaders and no director gets a no-director alert.
C22_AlerteAucunDirecteur ==
    (HighlightAppele /\ LigneLisible(row) /\ NbChefsDeLigne(row) > 0
        /\ int_float(Get(row, COL_DIRECTEUR, Num(0))).n = 0) =>
        "aucun_directeur" \in Alertes


\* The place, in this run's order, of the file of index f of the folder.
PlaceDe(f) == CHOOSE j \in DOMAIN ordre : ordre[j] = f

\* The records of the accepted files that carry the member code c.
RecordsAcceptes(c) ==
    UNION {{FichierEn(j).adherents[i].d :
               i \in {x \in DOMAIN FichierEn(j).adherents :
                         CodeDe(FichierEn(j).adherents[x].d) = c}} :
              j \in PlacesAcceptees}

\* C24: once the first pass is over, the working set owes nothing to a file
\* listed in fichiers_erreur: an entry stored without a member code comes from
\* an accepted file, an entry stored under a member code has that code in an
\* accepted file, and each truthy field of it is the field of a record of an
\* accepted file with that code.
C24_ToutOuRien ==
    pc \in {"pass2", "done"} =>
        \A n \in DOMAIN adherents_uniques :
            LET e == adherents_uniques[n] IN
            IF e.key.t = "id" THEN Accepte(PlaceDe(e.key.f))
            ELSE /\ RecordsAcceptes(e.key) # {}
                 /\ \A k \in DOMAIN e.adherent :
                        Truthy(e.adherent[k]) =>
                            \E a \in RecordsAcceptes(e.key) :
                                k \in DOMAIN a /\ a[k] = e.adherent[k]

\* The files named in fichiers_erreur, as indexes of the folder.
FichiersEnErreur == {fichiers_erreur[n][1] : n \in DOMAIN fichiers_erreur}

\* The files of the folder other than structure.json.
FichiersDeDonnees == {f \in DOMAIN dossier : dossier[f].kind # "structure"}

\* C25: once the first pass is over, each file other than structure.json has
\* either been counted in fichiers_traites or been given one entry of
\* fichiers_erreur, and not both: the counter is the number of files that
\* fichiers_erreur does not name, and no file is named twice.
C25_UneSeuleFois ==
    pc \in {"pass2", "done"} =>
        /\ FichiersEnErreur \subseteq FichiersDeDonnees
        /\ Len(fichiers_erreur) = Cardinality(FichiersEnErreur)
        /\ fichiers_traites = Cardinality(FichiersDeDonnees \ FichiersEnErreur)

\* The sum of the ADHERENT and PREINSCRIT cells of an aggregate over every
\* (branch, unit) and role.
TotalCellules(res) ==
    SommeSur([cle \in DOMAIN res |->
                 SommeSur([r \in DOMAIN res[cle].functions |->
                              res[cle].functions[r].ADHERENT
                              + res[cle].functions[r].PREINSCRIT],
                          DOMAIN res[cle].functions)],
             DOMAIN res)

\* C26: when load_data returns, the processed and the ignored records add up
\* to the size of the working set, the status cells add up to the processed
\* records, and no count is negative.
C26_Conservation ==
    pc = "done" =>
        /\ adherents_traites + adherents_ignores = Len(adherents_uniques)
        /\ TotalCellules(result) = adherents_traites
        /\ adherents_traites >= 0 /\ adherents_ignores >= 0
        /\ \A cle \in DOMAIN result : \A r \in DOMAIN result[cle].functions :
               /\ result[cle].functions[r].ADHERENT >= 0
               /\ result[cle].functions[r].PREINSCRIT >= 0

\* C26 witness: load_data returned after it counted two records into two
\* different cells of one unit.
C26_Temoin ==
    /\ pc = "done"
    /\ adherents_traites = 2
    /\ adherents_traites + adherents_ignores = Len(adherents_uniques)
    /\ TotalCellules(result) = 2
    /\ \E cle \in DOMAIN result : Cardinality(DOMAIN result[cle].functions) = 2


-----------------------------------------------------------------------------
(* verifier_quotas_camp_sgdf called again on a staffing raised by the        *)
(* shortfalls its first call reported                                        *)

\* The staffing vectors explored: any headcount, and adults up to the numbers
\* of the rows above.
Vecteurs ==
    [nb_jeunes : 0..MaxJeunes, nb_dir : 0..MaxDirecteurs,
     nb_qual : 0..(MaxAppro + MaxTech), nb_stag : 0..MaxAPF,
     nb_autres : 0..MaxSansDiplome]

InitComplement ==
    /\ HorsChargement
    /\ row = <<>>
    /\ quota_arg \in Vecteurs
    /\ quota_ret = NonAppele
    /\ details_alertes_camp = <<>>
    /\ highlight_ret = NonAppele
    /\ ComplementInactif /\ RenduInactif /\ SessionInactive

\* The staffing of a call, each count raised by what the returned map reports
\* for it.
Complete(arg, manquants) ==
    [arg EXCEPT !.nb_dir = @ + Get(manquants, DIRECTEUR, 0),
                !.nb_qual = @ + Get(manquants, QUALIFIE, 0),
                !.nb_autres = @ + Get(manquants, ENCADRANT, 0)]

\* A second call of verifier_quotas_camp_sgdf, same headcount, on the
\* completed staffing.
RappelerVerifier ==
    /\ quota_ret # NonAppele
    /\ quota_prec = Aucun
    /\ quota_prec' = [arg |-> quota_arg, ret |-> quota_ret]
    /\ LET arg == Complete(quota_arg, quota_ret.manquants)
       IN /\ quota_arg' = arg
          /\ quota_ret' = verifier_quotas_camp_sgdf(arg.nb_jeunes, arg.nb_dir, arg.nb_qual,
                                                    arg.nb_stag, arg.nb_autres)
    /\ UNCHANGED <<row, details_alertes_camp, highlight_ret>>
    /\ ChargementInchange
    /\ RenduInchange /\ SessionInchangee

NextComplement == AppelerVerifier \/ RappelerVerifier

SpecComplement == InitComplement /\ [][NextComplement]_vars

\* C27: for a headcount from 7 to 84, the second call, made on the staffing
\* of the first one raised by the shortfalls it reported, answers that the
\* camp is compliant, with an empty map.
C27_ManquantsSuffisants ==
    (quota_prec # Aucun /\ DansTableau(quota_prec.arg.nb_jeunes)) =>
        /\ quota_arg = Complete(quota_prec.arg, quota_prec.ret.manquants)
        /\ quota_ret.camp_ok
        /\ DOMAIN quota_ret.manquants = {}

\* C27 witness: the first call reported the three kinds of shortfall, and the
\* second call accepts the completed staffing.
C27_Temoin ==
    /\ quota_prec # Aucun
    /\ DansTableau(quota_prec.arg.nb_jeunes)
    /\ DOMAIN quota_prec.ret.manquants = {DIRECTEUR, QUALIFIE, ENCADRANT}
    /\ quota_ret.camp_ok


-----------------------------------------------------------------------------
(* render_branche_content of src/page_statistiques.py: the pivot table of a  *)
(* branch and the styling of its rows                                        *)

\* str.strip() on the labels of the tables explored: the labels that have
\* surrounding whitespace, and what is left of them.
Rognes == ("N1 " :> "N1") @@ ("GUIDE " :> "GUIDE")
str_strip(s) == IF s \in DOMAIN Rognes THEN Rognes[s] ELSE s

\* Largest number of rows of the two tables given to render_branche_content,
\* taken together.
MaxLignesBranche == 3

CodesStructure == {"S1", "S2"}

\* The display name prepare_dataframes gives to each unit code: two codes may
\* share a name, as written or once stripped.
NomsParCode == {n \in [CodesStructure -> {"N1", "N1 ", "N2"}] : n["S1"] # "N2" /\ n["S2"] # "N1 "}

\* The rows of df_functions for one branch (data_service.py, lines 316-329),
\* with the columns the pivot reads: 'Code Structure', 'Nom Structure',
\* 'Fonction', 'Nombre Adherent', 'Nombre Preinscrit'.
LignesFonctions(noms) ==
    {r \in [code : CodesStructure, nom : {"N1", "N1 ", "N2"},
            fonction : {"SCOUT/MOUSSE", "GUIDE "},
            adherent : {6, 85}, preinscrit : {0, 1}] : r.nom = noms[r.code]}

\* prepare_dataframes emits one row per unit code and role.
UneLigneParRole(df) ==
    \A i, j \in DOMAIN df :
        (df[i].code = df[j].code /\ df[i].fonction = df[j].fonction) => i = j

\* The rows of df_chefs for one branch (lines 336-346): 'Nom Structure' and
\* 'Diplôme JS'.
LignesChefs == [nom : {"N1", "N2"}, diplome : {"Directeur", "-"}]

InitRendu ==
    /\ HorsChargement
    /\ row = <<>>
    /\ quota_arg = <<>>
    /\ quota_ret = NonAppele
    /\ details_alertes_camp = <<>>
    /\ highlight_ret = NonAppele
    /\ ComplementInactif /\ SessionInactive
    /\ \E noms \in NomsParCode, nf \in 0..MaxLignesBranche :
          \E nc \in 0..(MaxLignesBranche - nf) :
              \E f \in [1..nf -> LignesFonctions(noms)], c \in [1..nc -> LignesChefs],
                 b \in BOOLEAN :
                  /\ UneLigneParRole(f)
                  /\ branche_arg = [df_functions |-> f, df_chefs |-> c,
                                    inclure_preinscrits |-> b]
    /\ df_final = NonAppele
    /\ styled = <<>>
    /\ all_alerts = {}

\* Lines 239-244: the rows of the branch, display names stripped.
df_branche == [i \in DOMAIN branche_arg.df_functions |->
                  [branche_arg.df_functions[i] EXCEPT !.nom = str_strip(@)]]
df_chefs_branche == [i \in DOMAIN branche_arg.df_chefs |->
                        [branche_arg.df_chefs[i] EXCEPT !.nom = str_strip(@)]]

\* Lines 253-268: the loop over the rows of df_branche. index is the order in
\* which the names were first met, data is data_formatted_fonctions and
\* totaux is totaux_par_structure.
RECURSIVE pivot(_, _)
pivot(df, inclure) ==
    IF df = <<>> THEN [index |-> <<>>, data |-> <<>>, totaux |-> <<>>]
    ELSE LET p == pivot(SubSeq(df, 1, Len(df) - 1), inclure)
             r == df[Len(df)]
             nom_structure == r.nom
             fonction == str_strip(r.fonction)
             total == IF inclure THEN r.adherent + r.preinscrit ELSE r.adherent
             connu == nom_structure \in DOMAIN p.data
             d0 == IF connu THEN p.data[nom_structure] ELSE <<>>
             t0 == IF connu THEN p.totaux[nom_structure] ELSE 0
         IN [index |-> IF connu THEN p.index ELSE Append(p.index, nom_structure),
             data |-> (nom_structure :> ((fonction :> Str(str_int(total))) @@ d0)) @@ p.data,
             totaux |-> (nom_structure :> (t0 + total)) @@ p.totaux]

\* The columns of df_pivot_branche: the roles met in some row.
cols_fonctions(p) == UNION {DOMAIN p.data[n] : n \in DOMAIN p.data}

\* len(...) of lines 278-282: the leaders of a unit name that hold a diploma.
nb_chefs(chefs, nom_structure, diplome) ==
    Cardinality({i \in DOMAIN chefs :
                    chefs[i].nom = nom_structure /\ chefs[i].diplome = diplome})

\* Lines 273-293: the diploma columns of a unit name; without any leader in
\* the branch they are all 0.
diplomes_counts(chefs, nom_structure) ==
    IF chefs # <<>>
    THEN (COL_DIRECTEUR :> Num(nb_chefs(chefs, nom_structure, "Directeur")))
         @@ (COL_APPRO :> Num(nb_chefs(chefs, nom_structure, "Appro")))
         @@ (COL_TECH :> Num(nb_chefs(chefs, nom_structure, "Tech")))
         @@ (COL_APF :> Num(nb_chefs(chefs, nom_structure, "APF")))
         @@ (COL_SANS :> Num(nb_chefs(chefs, nom_structure, "-")))
    ELSE [c \in {COL_DIRECTEUR, COL_APPRO, COL_TECH, COL_APF, COL_SANS} |-> Num(0)]

COL_TOTAL == "TOTAL"

\* Lines 271 and 296-297: the table displayed, one row per unit name; a role
\* the unit does not have is "0" (fillna), the total is the string of an int.
table_finale(p, chefs) ==
    [k \in DOMAIN p.index |->
        LET n == p.index[k] IN
        [name |-> n,
         cells |-> [f \in cols_fonctions(p) |->
                       IF f \in DOMAIN p.data[n] THEN p.data[n][f] ELSE Str(<<"0">>)]
                   @@ diplomes_counts(chefs, n)
                   @@ (COL_TOTAL :> Str(str_int(p.totaux[n])))]]

\* What df_final holds once render_branche_content has passed line 246: no
\* table for an empty branch, the table otherwise.
SansTable == [t |-> "vide"]
Table(lignes) == [t |-> "table", lignes |-> lignes]

\* The rows of the table displayed, none while there is no table.
lignes_finales == IF df_final.t = "table" THEN df_final.lignes ELSE <<>>

AutreQueRendu ==
    /\ UNCHANGED <<row, quota_arg, quota_ret, highlight_ret>>
    /\ ChargementInchange
    /\ ComplementInchange /\ SessionInchangee

\* Lines 246-248: a branch without rows shows a notice and no table.
BrancheVide ==
    /\ branche_arg # <<>> /\ df_final = NonAppele
    /\ df_branche = <<>>
    /\ df_final' = SansTable
    /\ UNCHANGED <<branche_arg, styled, all_alerts, details_alertes_camp>>
    /\ AutreQueRendu

\* Lines 250-304: the pivot is built, the side-channel dict and the alert set
\* start empty.
ConstruirePivot ==
    /\ branche_arg # <<>> /\ df_final = NonAppele
    /\ df_branche # <<>>
    /\ df_final' = Table(table_finale(pivot(df_branche, branche_arg.inclure_preinscrits),
                                      df_chefs_branche))
    /\ details_alertes_camp' = <<>>
    /\ all_alerts' = {}
    /\ UNCHANGED <<branche_arg, styled>>
    /\ AutreQueRendu

\* Lines 306-317: the Styler applies apply_style_and_collect to the next row.
StylerLigne ==
    /\ Len(styled) < Len(lignes_finales)
    /\ LET ligne == lignes_finales[Len(styled) + 1]
           rendu == highlight_row(ligne.cells, ligne.name, details_alertes_camp)
       IN /\ styled' = Append(styled, [styles |-> rendu.styles, alerts |-> rendu.alerts])
          /\ all_alerts' = all_alerts \cup {rendu.alerts[i] : i \in DOMAIN rendu.alerts}
          /\ details_alertes_camp' = rendu.details
    /\ UNCHANGED <<branche_arg, df_final>>
    /\ AutreQueRendu

NextRendu == BrancheVide \/ ConstruirePivot \/ StylerLigne

SpecRendu == InitRendu /\ [][NextRendu]_vars


\* Every row of the table has been styled.
RenduFini == df_final.t = "table" /\ Len(styled) = Len(lignes_finales)

AlertesDeLigne(k) == {styled[k].alerts[i] : i \in DOMAIN styled[k].alerts}

\* The entries of the side-channel dict are those of the rows that raised
\* quota_camp_insuffisant.
EntreeSiAlerte ==
    /\ DOMAIN details_alertes_camp \subseteq {lignes_finales[k].name : k \in DOMAIN lignes_finales}
    /\ \A k \in DOMAIN lignes_finales :
           lignes_finales[k].name \in DOMAIN details_alertes_camp
               <=> "quota_camp_insuffisant" \in AlertesDeLigne(k)

\* C28 as stated: once every row of the branch is styled, the side-channel
\* dict has an entry for a unit exactly when its row raised
\* quota_camp_insuffisant, and every entry names a missing category.
C28_EntreeNonVide ==
    RenduFini =>
        /\ EntreeSiAlerte
        /\ \A n \in DOMAIN details_alertes_camp : DOMAIN details_alertes_camp[n] # {}

\* C28, amended: once every row of the branch is styled, the side-channel
\* dict has an entry for a unit exactly when its row raised
\* quota_camp_insuffisant, and the entry of a row names a missing category
\* exactly when the row has 84 youths at most.
C28_EntreeSiAlerte ==
    RenduFini =>
        /\ EntreeSiAlerte
        /\ \A k \in DOMAIN lignes_finales :
               lignes_finales[k].name \in DOMAIN details_alertes_camp =>
                   (DOMAIN details_alertes_camp[lignes_finales[k].name] # {}
                       <=> nb_jeunes_de(lignes_finales[k].cells) <= 84)

\* C28 witness: a table of two rows is styled; one raised the alert and has an
\* entry that names a missing category, the other raised nothing and has none.
C28_Temoin ==
    /\ RenduFini
    /\ Len(lignes_finales) = 2
    /\ \E k \in DOMAIN lignes_finales :
          /\ "quota_camp_insuffisant" \in AlertesDeLigne(k)
          /\ DOMAIN details_alertes_camp = {lignes_finales[k].name}
          /\ DOMAIN details_alertes_camp[lignes_finales[k].name] # {}

\* The role columns of a row of the table displayed.
ColonnesRoles(cells) ==
    DOMAIN cells \ {COL_DIRECTEUR, COL_APPRO, COL_TECH, COL_APF, COL_SANS, COL_TOTAL}

\* C29: in the table built for a branch, the TOTAL cell of every row is the
\* sum of the role cells displayed in that row.
C29_TotalEgalSomme ==
    \A k \in DOMAIN lignes_finales :
            LET cells == lignes_finales[k].cells IN
            int_float(cells[COL_TOTAL]).n =
                SommeSur([f \in ColonnesRoles(cells) |-> int_float(cells[f]).n],
                         ColonnesRoles(cells))


-----------------------------------------------------------------------------
(* The styling of a table whose rows may hold cells that are no numbers      *)

\* Youth headcounts around the thresholds of highlight_row.
EffectifsStyle == {6, 7, 36, 85}

\* Rows with one youth column; the directors' cell may be unreadable.
LignesStyle ==
    {("SCOUT/MOUSSE" :> Str(str_int(j)))
       @@ (COL_DIRECTEUR :> d)
       @@ (COL_APPRO :> Num(0)) @@ (COL_TECH :> Num(0))
       @@ (COL_APF :> Num(0)) @@ (COL_SANS :> Num(n))
       @@ (COL_TOTAL :> Str(str_int(j))) :
       j \in EffectifsStyle, d \in CellulesDirecteur, n \in 0..MaxSansDiplome}

\* A table of two rows, "U" then "V", about to be styled.
InitStyle ==
    /\ HorsChargement
    /\ row = <<>>
    /\ quota_arg = <<>>
    /\ quota_ret = NonAppele
    /\ details_alertes_camp = <<>>
    /\ highlight_ret = NonAppele
    /\ ComplementInactif /\ SessionInactive
    /\ branche_arg = <<>>
    /\ \E u, v \in LignesStyle :
          df_final = Table(<<[name |-> "U", cells |-> u], [name |-> "V", cells |-> v]>>)
    /\ styled = <<>>
    /\ all_alerts = {}

NextStyle == StylerLigne

SpecStyle == InitStyle /\ [][NextStyle]_vars

\* The conversions of lines 591-594 raise on this row: it has 7 youths or
\* more and a diploma cell that is no number.
LigneLeve(cells) == nb_jeunes_de(cells) >= 7 /\ ~LigneLisible(cells)

\* What highlight_row returns for a row styled on its own.
Seul(k) == highlight_row(lignes_finales[k].cells, lignes_finales[k].name, <<>>)

\* C23: a row on which highlight_row raises gets empty styles, no alert and no
\* entry in the side-channel dict; and every row styled so far, before or
\* after such a row, has the styles, the alerts and the entry highlight_row
\* gives it when it is styled alone.
C23_LigneNeutralisee ==
    \A k \in DOMAIN styled :
        LET ligne == lignes_finales[k] IN
        /\ LigneLeve(ligne.cells) =>
               /\ styled[k].styles = Styles(ligne.cells, "")
               /\ styled[k].alerts = <<>>
               /\ ligne.name \notin DOMAIN details_alertes_camp
        /\ ~LigneLeve(ligne.cells) =>
               /\ styled[k] = [styles |-> Seul(k).styles, alerts |-> Seul(k).alerts]
               /\ ligne.name \in DOMAIN details_alertes_camp
                      <=> "quota_camp_insuffisant" \in AlertesDeLigne(k)
               /\ ligne.name \in DOMAIN details_alertes_camp =>
                      details_alertes_camp[ligne.name] = Seul(k).details[ligne.name]

\* C23 witness: the first row raised the staffing alert, the second one could
\* not be read; both are styled, the first keeps its alert and its entry, the
\* second has neither.
C23_Temoin ==
    /\ Len(styled) = 2
    /\ ~LigneLeve(lignes_finales[1].cells) /\ LigneLeve(lignes_finales[2].cells)
    /\ "quota_camp_insuffisant" \in AlertesDeLigne(1)
    /\ DOMAIN details_alertes_camp = {"U"}
    /\ styled[2].alerts = <<>>


-----------------------------------------------------------------------------
(* The session: main of src/app.py, handle_login of src/page_login.py and    *)
(* handle_logout of src/page_statistiques.py                                 *)

\* Largest number of AnalytiscoutAPI objects created in a browser session.
MaxConnexions == 4

\* What the form can submit: an identifier and a password, empty or not.
Identifiants == {Str(<<>>), Str(<<"u">>), Str(<<"v">>)}
MotsDePasse == {Str(<<>>), Str(<<"p">>)}

\* The reasons for which AnalytiscoutAPI.login returns False
\* (analytiscout_api.py, lines 46, 68, 71, 73, 75).
EchecsLogin == {"formulaire", "identifiants", "delai", "connexion", "inattendue"}

\* A reference to the n-th AnalytiscoutAPI object created.
Api(n) == [t |-> "api", id |-> n]

InitSession ==
    /\ HorsChargement
    /\ row = <<>>
    /\ quota_arg = <<>>
    /\ quota_ret = NonAppele
    /\ details_alertes_camp = <<>>
    /\ highlight_ret = NonAppele
    /\ ComplementInactif /\ RenduInactif /\ SessionInactive

AutreQueSession ==
    /\ UNCHANGED <<row, quota_arg, quota_ret, details_alertes_camp, highlight_ret>>
    /\ ChargementInchange
    /\ ComplementInchange /\ RenduInchange

\* app.py, lines 10-17: a key that is missing gets its default.
init_session_state(s) ==
    s @@ [k \in {"logged_in", "api_instance", "username"} |->
             IF k = "logged_in" THEN Bool(FALSE) ELSE None]

\* app.py, lines 34-38, and page_statistiques.py, lines 25-28: the page a run
\* of main renders.
page_rendue(s) == IF Truthy(s["logged_in"]) THEN "statistiques" ELSE "login"

\* A run of main on a new browser session.
main ==
    /\ page = "aucune"
    /\ session_state' = init_session_state(session_state)
    /\ page' = page_rendue(session_state')
    /\ UNCHANGED <<apis, message>>
    /\ AutreQueSession

Message(handler, kind) == [handler |-> handler, kind |-> kind]

\* A faulty variant: the identifier is kept after logout.
session_deconnectee_avec_username(s) ==
    [s EXCEPT !["logged_in"] = Bool(FALSE), !["api_instance"] = None]

\* page_statistiques.py, lines 637-639.
session_deconnectee(s) ==
    [s EXCEPT !["logged_in"] = Bool(FALSE), !["api_instance"] = None, !["username"] = None]

\* page_login.py, lines 47-78, from the form of the login page. Without an
\* identifier or a password nothing is tried. Otherwise an API object is
\* created and its login answers: on success the three fields are set and
\* st.rerun() runs main again; on failure the error is shown.
handle_login ==
    /\ page = "login"
    /\ \E username \in Identifiants, password \in MotsDePasse :
          IF ~Truthy(username) \/ ~Truthy(password)
          THEN /\ message' = Message("login", "warning")
               /\ UNCHANGED <<session_state, page, apis>>
          ELSE /\ Len(apis) < MaxConnexions
               /\ \/ /\ apis' = Append(apis, "authentifiee")
                     /\ session_state' =
                            [session_state EXCEPT !["logged_in"] = Bool(TRUE),
                                                  !["api_instance"] = Api(Len(apis) + 1),
                                                  !["username"] = username]
                     /\ message' = Message("login", "success")
                     /\ page' = page_rendue(session_state')
                  \/ /\ apis' = Append(apis, "non_authentifiee")
                     /\ \E e \in EchecsLogin : message' = Message("login", e)
                     /\ UNCHANGED <<session_state, page>>
    /\ AutreQueSession

\* page_statistiques.py, lines 632-642, from the button of the statistics
\* page. The key 'api_instance' is in the session since main ran; logout() on
\* None raises AttributeError. Otherwise the API session is closed, the three
\* fields are reset and st.rerun() runs main again.
handle_logout ==
    /\ page = "statistiques"
    /\ IF session_state["api_instance"] = None
       THEN /\ message' = Raise
            /\ UNCHANGED <<session_state, page, apis>>
       ELSE /\ apis' = [apis EXCEPT ![session_state["api_instance"].id] = "fermee"]
            /\ session_state' = session_deconnectee(session_state)
            /\ message' = Message("logout", "success")
            /\ page' = page_rendue(session_state')
    /\ AutreQueSession

NextSession == main \/ handle_login \/ handle_logout

SpecSession == InitSession /\ [][NextSession]_vars

\* logged_in is true only with an API object and an identifier in the session.
SessionCoherente ==
    Truthy(Get(session_state, "logged_in", Bool(FALSE))) =>
        /\ session_state["api_instance"] # None
        /\ session_state["api_instance"].t = "api"
        /\ session_state["api_instance"].id \in DOMAIN apis
        /\ session_state["username"] # None

\* The statistics page is rendered for a logged-in session only.
PageProtegee ==
    page = "statistiques" => Truthy(Get(session_state, "logged_in", Bool(FALSE)))

\* A step of handle_login that does not log in.
EchecLogin ==
    /\ page = "login" /\ page' = "login"
    /\ message'.handler = "login" /\ message'.kind # "success"

\* A step of handle_logout.
Deconnexion == page = "statistiques" /\ message' # message

\* C30: in every state, logged_in is true only when the session holds an API
\* object and an identifier, and the statistics page is rendered only when
\* logged_in is true; a login that fails or lacks a credential leaves the
\* session fields as they were; handle_logout closes the session of the API
\* object, resets the fields to (False, None, None) and the page rendered
\* next is the login page.
C30_InvariantDeSession ==
    /\ [](SessionCoherente /\ PageProtegee)
    /\ [][(EchecLogin => session_state' = session_state)
          /\ (Deconnexion =>
                 /\ apis'[session_state["api_instance"].id] = "fermee"
                 /\ session_state' = [logged_in |-> Bool(FALSE), api_instance |-> None,
                                      username |-> None]
                 /\ page' = "login")]_vars

\* C30 witness: after a failed attempt, a login and a logout, the session is
\* reset, the API object that was logged in is closed and the login page is
\* shown.
C30_Temoin ==
    /\ message = Message("logout", "success")
    /\ page = "login"
    /\ apis = <<"non_authentifiee", "fermee">>
    /\ session_state = [logged_in |-> Bool(FALSE), api_instance |-> None, username |-> None]

====
